---- MODULE Spec2Model ----
(***************************************************************************)
(* Model of the downtime-prediction feature of the sentinel dashboard:     *)
(*   - the mock scorer calculateMockProbability      (hooks/usePrediction) *)
(*   - the usePrediction hook and its three operations                     *)
(*   - the prediction service functions        (services/api/prediction..) *)
(*   - the CityPredictions classifier/renderer (components/predictions)    *)
(*                                                                         *)
(* Numbers.  Probabilities of the scorer are fixed-point integers in units *)
(* of 1/Scale (1.0 = Scale).  latency_ms, temperature, humidity and        *)
(* wind_speed are integers in their own unit; packet_loss is held in       *)
(* tenths of a percent (so 0.5 % is 5 and 100 % is 1000).  City            *)
(* probabilities are integers in units of 1/CityScale (1e-9).              *)
(***************************************************************************)
EXTENDS Integers, Sequences, FiniteSets, TLC

VARIABLES
    \* --- scorer harness: one call of calculateMockProbability
    values,        \* the PredictionRequest handed to the scorer
    scored,        \* the PredictionResult it returned, or NoResult
    \* --- classifier harness: one render of <CityPredictions/>
    props,         \* [cityPredictions, cityPredictionsLoading, country]
    view,          \* what the component rendered, or NoView
    \* --- AuthContext (AuthProvider state and module constants)
    configured,    \* supabaseUrl and supabaseAnonKey are both set
    user,          \* useState<User | null>: "null", "real" or "mock" (MOCK_USER)
    mockMode,      \* useState(false)
    sessionCheck,  \* checkSession(): "pending" until getSession() resolves
    \* --- usePrediction (the hook's state)
    isLoading,
    result,                  \* PredictionResult | null
    cityPredictions,         \* Record<string, number> | null (| undefined)
    cityPredictionsLoading,
    inflight,      \* the invocations in flight, oldest first
    finished,      \* the invocation that ended last, or NoInvocation
    \* --- alertService (module state) and the ViewAlerts page
    MOCK_ALERTS,   \* the module's mock store, in array order
    clock,         \* Date.now(), in milliseconds since the module was loaded
    lastCall,      \* the service call made last with what it settled with
    page,          \* the useState cells of ViewAlerts
    viewCalls      \* the page's service calls in flight, oldest first

scorerVars == <<values, scored>>
classifierVars == <<props, view>>
authVars == <<configured, user, mockMode, sessionCheck>>
hookVars == <<isLoading, result, cityPredictions, cityPredictionsLoading,
             inflight, finished>>
alertVars == <<MOCK_ALERTS, clock, lastCall, page, viewCalls>>
vars == <<values, scored, props, view, configured, user, mockMode, sessionCheck,
          isLoading, result, cityPredictions, cityPredictionsLoading, inflight,
          finished, MOCK_ALERTS, clock, lastCall, page, viewCalls>>

Scale == 100 * 1000          \* 1.0 of a scorer probability
CityScale == 1000 * 1000 * 1000   \* 1.0 of a city probability

Max(a, b) == IF a >= b THEN a ELSE b
Min(a, b) == IF a <= b THEN a ELSE b

(***************************************************************************)
(* Bounds                                                                  *)
(***************************************************************************)
\* Math.random() is modelled as r / RandomSteps for r in 0..RandomSteps-1.
RandomSteps == 200
\* Invocations of the hook's operations that may be in flight at once.
MaxInvocations == 2

Randoms == 0 .. (RandomSteps - 1)

(***************************************************************************)
(* The scorer: calculateMockProbability                                    *)
(***************************************************************************)
NoResult == [none |-> TRUE]

Clamp01_NoUpperBound(p) == Max(0, p)

\* Math.max(0, Math.min(1, probability))
Clamp01(p) == Max(0, Min(Scale, p))

\* (Math.random() * 0.2) - 0.1 for Math.random() = r / RandomSteps
Jitter(r) == ((r * ((2 * Scale) \div 10)) \div RandomSteps) - (Scale \div 10)

\* parseFloat(x.toFixed(2)) for x >= 0: the nearest multiple of 0.01, a tie
\* going to the larger one.
ToFixed2(x) == ((x + (Scale \div 200)) \div (Scale \div 100)) * (Scale \div 100)

\* const threshold = 0.7
threshold == (7 * Scale) \div 10

contributing_factors ==
    << [name |-> "Network Latency", impact |-> (35 * Scale) \div 100],
       [name |-> "Packet Loss", impact |-> (30 * Scale) \div 100],
       [name |-> "Environmental Conditions", impact |-> (25 * Scale) \div 100] >>

PreJitterProbability_NonStrict(v) ==
    LET p1 == (((v.latency_ms * Scale) \div 1000) * 3) \div 10
        p2 == p1 + ((((v.packet_loss * Scale) \div 1000) * 3) \div 10)
        p3 == IF v.temperature >= 35 \/ v.temperature <= 0
              THEN p2 + ((15 * Scale) \div 100) ELSE p2
        p4 == IF v.humidity >= 90 THEN p3 + ((10 * Scale) \div 100) ELSE p3
        p5 == IF v.wind_speed >= 20 THEN p4 + ((15 * Scale) \div 100) ELSE p4
    IN  Clamp01(p5)

WeightedSum_RegionBias(v) ==
    (((v.latency_ms * Scale) \div 1000) * 3) \div 10
    + ((((v.packet_loss * Scale) \div 1000) * 3) \div 10)
    + (IF v.temperature > 35 \/ v.temperature < 0 THEN (15 * Scale) \div 100 ELSE 0)
    + (IF v.humidity > 90 THEN (10 * Scale) \div 100 ELSE 0)
    + (IF v.wind_speed > 20 THEN (15 * Scale) \div 100 ELSE 0)
    + (IF v.region = "Europe" THEN (5 * Scale) \div 100 ELSE 0)

\* lines 29-46: the weighted sum before it is clamped
WeightedSum(v) ==
    LET p1 == (((v.latency_ms * Scale) \div 1000) * 3) \div 10
        \* packet_loss is in tenths of a percent: (packet_loss / 100) * 0.3
        p2 == p1 + ((((v.packet_loss * Scale) \div 1000) * 3) \div 10)
        p3 == IF v.temperature > 35 \/ v.temperature < 0
              THEN p2 + ((15 * Scale) \div 100) ELSE p2
        p4 == IF v.humidity > 90 THEN p3 + ((10 * Scale) \div 100) ELSE p3
        p5 == IF v.wind_speed > 20 THEN p4 + ((15 * Scale) \div 100) ELSE p4
    IN  p5

\* lines 29-49: the weighted sum, clamped
PreJitterProbability(v) == Clamp01(WeightedSum(v))

\* mutant: the second clamp (line 53) dropped
JitteredProbability_NoClamp(v, r) == PreJitterProbability(v) + Jitter(r)

\* lines 51-53: jitter, clamped again (the unrounded probability)
JitteredProbability(v, r) == Clamp01(PreJitterProbability(v) + Jitter(r))

calculateMockProbability_FactorsByInput(v, r) ==
    LET probability == JitteredProbability(v, r)
    IN  [ downtime_probability |-> ToFixed2(probability),
          threshold            |-> threshold,
          alert_triggered      |-> probability > threshold,
          contributing_factors |->
              [contributing_factors EXCEPT
                  ![1].impact = Min(Scale, ((v.latency_ms * Scale) \div 1000))],
          recommendation       |->
            "Consider network path optimization and environmental controls." ]

\* lines 55-67: the returned object
calculateMockProbability(v, r) ==
    LET probability == JitteredProbability(v, r)
    IN  [ downtime_probability |-> ToFixed2(probability),
          threshold            |-> threshold,
          alert_triggered      |-> probability > threshold,
          contributing_factors |-> contributing_factors,
          recommendation       |->
            "Consider network path optimization and environmental controls." ]

(***************************************************************************)
(* Scorer harness: inputs the advanced form accepts (predictionFormSchema) *)
(***************************************************************************)
FormLatencies   == {0, 150, 300, 1000, 2000, 5000}          \* 0..5000
FormPacketLoss  == {0, 5, 20, 80, 1000}                     \* 0..100 %
FormTemperature == {-50, -1, 0, 25, 35, 36, 40, 60}         \* -50..60
FormWindSpeed   == {0, 20, 21, 25}                          \* >= 0
FormHumidity    == {0, 90, 91, 95, 100}                     \* 0..100

FormRequests ==
    [ region : {"kenya"}, latency_ms : FormLatencies, packet_loss : FormPacketLoss,
      temperature : FormTemperature, wind_speed : FormWindSpeed,
      humidity : FormHumidity ]

NoProps == [none |-> TRUE]
NoView  == [none |-> TRUE]
Null == [null |-> TRUE]                \* JavaScript null
Undefined == [undefined |-> TRUE]      \* JavaScript undefined
Slots == 1 .. MaxInvocations
\* no invocation has ended yet
NoInvocation ==
    [ pc |-> "none", op |-> "none", arg |-> Null, user |-> "null",
      mockMode |-> FALSE, calls |-> 0, timer |-> FALSE, ext |-> "none",
      data |-> Undefined, toast |-> "none", overtaken |-> FALSE ]

\* no service call has been made / the page is not mounted
NoCall == [op |-> "none"]
NoPage == [mounted |-> FALSE]

\* the parts of the state a harness does not use
IdleScorer == values = NoResult /\ scored = NoResult
IdleClassifier == props = NoProps /\ view = NoView
IdleAuth ==
    /\ configured = FALSE /\ user = "null" /\ mockMode = FALSE
    /\ sessionCheck = "pending"
IdleHook ==
    /\ isLoading = FALSE /\ result = Null
    /\ cityPredictions = Null /\ cityPredictionsLoading = FALSE
    /\ inflight = << >>
    /\ finished = NoInvocation
IdleAlerts ==
    /\ MOCK_ALERTS = << >> /\ clock = 0 /\ lastCall = NoCall
    /\ page = NoPage /\ viewCalls = << >>

ScorerInit ==
    /\ values \in FormRequests
    /\ scored = NoResult
    /\ IdleClassifier
    /\ IdleAuth
    /\ IdleHook
    /\ IdleAlerts

\* one call of the scorer, Math.random() drawn by the environment
Score ==
    /\ scored = NoResult
    /\ \E r \in Randoms : scored' = calculateMockProbability(values, r)
    /\ UNCHANGED <<values, classifierVars, authVars, hookVars, alertVars>>

\* the same form values are submitted again
Resubmit ==
    /\ scored # NoResult
    /\ scored' = NoResult
    /\ UNCHANGED <<values, classifierVars, authVars, hookVars, alertVars>>

ScorerNext == Score \/ Resubmit

SpecScorer == ScorerInit /\ [][ScorerNext]_vars

(***************************************************************************)
(* Claims about the scorer (checked under SpecScorer)                      *)
(***************************************************************************)
\* C1: for every input the advanced form accepts and every jitter, the
\* returned downtime_probability lies in [0, 1] and is a multiple of 0.01.
C1_ProbabilityInUnitRangeTwoDecimals ==
    scored # NoResult =>
        /\ 0 <= scored.downtime_probability
        /\ scored.downtime_probability <= Scale
        /\ scored.downtime_probability % (Scale \div 100) = 0

\* C1 witness: an input whose weighted sum exceeds 1 (latency 5000 ms) was
\* scored and the clamps brought the returned value to exactly 1.0.
C1_Witness ==
    /\ scored # NoResult
    /\ values.latency_ms = 5000
    /\ scored.downtime_probability = Scale

\* C2 (as claimed): alert_triggered equals (downtime_probability > 0.7) for
\* the downtime_probability actually returned, i.e. the rounded one.
C2_AlertMatchesReturnedProbability ==
    scored # NoResult =>
        (scored.alert_triggered <=>
            scored.downtime_probability > scored.threshold)

(***************************************************************************)
(* Static city tables                                                      *)
(***************************************************************************)
\* A Record<string, number> holds the sequence of its <<key, value>> entries
\* in insertion order (the order Object.entries yields).
Obj(entries) == [entries |-> entries]
\* part_000 lines 74-83, in units of 1e-9 (city names in ASCII)
mock_spain ==
    Obj(<< <<"Madrid", 3474844>>,
       <<"Barcelona", 4376580>>,
       <<"Valencia", 3343795>>,
       <<"Seville", 6782503>>,
       <<"Zaragoza", 3636487>>,
       <<"Malaga", 3484725>>,
       <<"Murcia", 3526659>>,
       <<"Palma", 3432100>>,
       <<"Las Palmas", 3948000>>,
       <<"Bilbao", 3544553>> >>)
\* part_000 lines 86-90, in units of 1e-9 (city names in ASCII)
mock_kenya ==
    Obj(<< <<"Nairobi", 420000000>>,
       <<"Mombasa", 670000000>>,
       <<"Kisumu", 550000000>>,
       <<"Nakuru", 330000000>>,
       <<"Eldoret", 290000000>> >>)
\* part_000 lines 93-97, in units of 1e-9 (city names in ASCII)
mock_brazil ==
    Obj(<< <<"Sao Paulo", 380000000>>,
       <<"Rio de Janeiro", 450000000>>,
       <<"Brasilia", 220000000>>,
       <<"Salvador", 510000000>>,
       <<"Fortaleza", 630000000>> >>)
\* part_000 lines 100-104, in units of 1e-9 (city names in ASCII)
mock_india ==
    Obj(<< <<"Mumbai", 760000000>>,
       <<"Delhi", 820000000>>,
       <<"Bangalore", 580000000>>,
       <<"Chennai", 650000000>>,
       <<"Kolkata", 730000000>> >>)
\* part_000 lines 107-111, in units of 1e-9 (city names in ASCII)
mock_indonesia ==
    Obj(<< <<"Jakarta", 720000000>>,
       <<"Surabaya", 650000000>>,
       <<"Medan", 580000000>>,
       <<"Bandung", 470000000>>,
       <<"Makassar", 520000000>> >>)
\* part_000 lines 114-118, in units of 1e-9 (city names in ASCII)
mock_nigeria ==
    Obj(<< <<"Lagos", 810000000>>,
       <<"Kano", 750000000>>,
       <<"Ibadan", 690000000>>,
       <<"Abuja", 450000000>>,
       <<"Port Harcourt", 630000000>> >>)
\* part_000 lines 121-130, in units of 1e-9 (city names in ASCII)
mock_unitedstates ==
    Obj(<< <<"New York", 4500000>>,
       <<"Los Angeles", 5200000>>,
       <<"Chicago", 3800000>>,
       <<"Houston", 6200000>>,
       <<"Phoenix", 3100000>>,
       <<"Philadelphia", 4400000>>,
       <<"San Antonio", 3700000>>,
       <<"San Diego", 2800000>>,
       <<"Dallas", 5700000>>,
       <<"San Jose", 3300000>> >>)
\* part_000 lines 133-142, in units of 1e-9 (city names in ASCII)
mock_unitedkingdom ==
    Obj(<< <<"London", 3900000>>,
       <<"Birmingham", 4400000>>,
       <<"Manchester", 4900000>>,
       <<"Glasgow", 5100000>>,
       <<"Liverpool", 4600000>>,
       <<"Bristol", 3700000>>,
       <<"Edinburgh", 4200000>>,
       <<"Leeds", 4500000>>,
       <<"Sheffield", 3800000>>,
       <<"Newcastle", 4700000>> >>)
\* predictionService.ts lines 131-145, in units of 1e-9 (city names in ASCII)
fallback_Spain ==
    Obj(<< <<"Madrid", 3474844>>,
       <<"Barcelona", 4376580>>,
       <<"Valencia", 3343795>>,
       <<"Seville", 6782503>>,
       <<"Zaragoza", 3636487>>,
       <<"Malaga", 3484725>>,
       <<"Murcia", 3526659>>,
       <<"Palma", 3432100>>,
       <<"Las Palmas", 3948000>>,
       <<"Bilbao", 3544553>>,
       <<"Alicante", 4058265>>,
       <<"Cordoba", 6383295>>,
       <<"Valladolid", 3503675>>,
       <<"Vigo", 3948000>>,
       <<"Gijon", 3561854>> >>)
\* predictionService.ts lines 153-162, in units of 1e-9 (city names in ASCII)
fallback_UnitedStates ==
    Obj(<< <<"New York", 4500000>>,
       <<"Los Angeles", 5200000>>,
       <<"Chicago", 3800000>>,
       <<"Houston", 6200000>>,
       <<"Phoenix", 3100000>>,
       <<"Philadelphia", 4400000>>,
       <<"San Antonio", 3700000>>,
       <<"San Diego", 2800000>>,
       <<"Dallas", 5700000>>,
       <<"San Jose", 3300000>> >>)
\* predictionService.ts lines 170-179, in units of 1e-9 (city names in ASCII)
fallback_UnitedKingdom ==
    Obj(<< <<"London", 3900000>>,
       <<"Birmingham", 4400000>>,
       <<"Manchester", 4900000>>,
       <<"Glasgow", 5100000>>,
       <<"Liverpool", 4600000>>,
       <<"Bristol", 3700000>>,
       <<"Edinburgh", 4200000>>,
       <<"Leeds", 4500000>>,
       <<"Sheffield", 3800000>>,
       <<"Newcastle", 4700000>> >>)

\* the country names requests are made with
Countries == {"Spain", "UnitedStates", "UnitedKingdom", "Kenya", "Atlantis"}

\* country.toLowerCase()
ToLowerCase(s) ==
    CASE s = "Spain" -> "spain"
      [] s = "UnitedStates" -> "unitedstates"
      [] s = "UnitedKingdom" -> "unitedkingdom"
      [] s = "Kenya" -> "kenya"
      [] s = "Atlantis" -> "atlantis"
      [] OTHER -> s

predictionsByCountry ==
    [ spain |-> mock_spain, kenya |-> mock_kenya, brazil |-> mock_brazil,
      india |-> mock_india, indonesia |-> mock_indonesia,
      nigeria |-> mock_nigeria, unitedstates |-> mock_unitedstates,
      unitedkingdom |-> mock_unitedkingdom ]

\* predictionsByCountry[country.toLowerCase()] || {}
getMockCityPredictions(country) ==
    IF ToLowerCase(country) \in DOMAIN predictionsByCountry
    THEN predictionsByCountry[ToLowerCase(country)]
    ELSE Obj(<< >>)

(***************************************************************************)
(* AuthContext                                                             *)
(***************************************************************************)
\* value.user: mockMode ? MOCK_USER : user
ctxUser == IF mockMode THEN "mock" ELSE user

AuthInit ==
    /\ configured \in BOOLEAN
    /\ user = "null"
    /\ mockMode = FALSE
    /\ sessionCheck = "pending"

\* checkSession: getSession() resolves.  The mock client always resolves
\* {session: null, error: null}; the real one may report an error, no
\* session, or the session of a signed-in user.
checkSession ==
    /\ sessionCheck = "pending"
    /\ sessionCheck' = "done"
    /\ \E outcome \in IF configured THEN {"error", "none", "session"} ELSE {"none"} :
         IF outcome = "error"
         THEN UNCHANGED <<user, mockMode>>
         ELSE /\ user' = IF outcome = "session" THEN "real" ELSE "null"
              /\ mockMode' = IF outcome = "none" /\ ~configured THEN TRUE ELSE mockMode
    /\ UNCHANGED <<configured, scorerVars, classifierVars, hookVars, alertVars>>

\* signIn / signUp without backend configuration: the mock sign-in
signIn ==
    /\ ~configured
    /\ mockMode' = TRUE
    /\ user' = "mock"
    /\ UNCHANGED <<configured, sessionCheck, scorerVars, classifierVars, hookVars, alertVars>>

\* onAuthStateChange callback of the real client (after a sign-in, sign-up,
\* sign-out or token expiry); the mock client never calls it.
onAuthStateChange ==
    /\ configured
    /\ \E session \in {"real", "null"} : user' = session
    /\ UNCHANGED <<configured, mockMode, sessionCheck, scorerVars,
                   classifierVars, hookVars, alertVars>>

\* mutant: the mock sign-out leaves mock mode and keeps the demo user
signOut_KeepsUser ==
    /\ mockMode
    /\ user' = "mock"
    /\ mockMode' = FALSE
    /\ UNCHANGED <<configured, sessionCheck, scorerVars, classifierVars, hookVars, alertVars>>

\* signOut in mock mode (otherwise it only calls the client, which answers
\* through onAuthStateChange)
signOut ==
    /\ mockMode
    /\ user' = "null"
    /\ mockMode' = FALSE
    /\ UNCHANGED <<configured, sessionCheck, scorerVars, classifierVars, hookVars, alertVars>>

AuthNext == checkSession \/ signIn \/ onAuthStateChange \/ signOut

(***************************************************************************)
(* predictionService: what the external services may answer                *)
(***************************************************************************)
\* payloads of the predict_downtime rpc / the prediction endpoint
ExternalResults ==
    { [ probability |-> (42 * Scale) \div 100, threshold |-> (5 * Scale) \div 10,
        alert_triggered |-> FALSE,
        contributing_factors |-> << [name |-> "Backbone", impact |-> Scale \div 2] >>,
        recommendation |-> "external: none" ],
      [ probability |-> (93 * Scale) \div 100, threshold |-> (5 * Scale) \div 10,
        alert_triggered |-> TRUE,
        contributing_factors |-> << >>,
        recommendation |-> "external: reroute" ] }

\* what supabase.rpc('predict_downtime') settles with: the real client answers
\* {data, error} or rejects; the mock client answers {data: null, error: null}
RpcOutcomes ==
    IF configured
    THEN { [rejected |-> FALSE, error |-> FALSE, data |-> d] :
               d \in ExternalResults \cup {Null} }
         \cup { [rejected |-> FALSE, error |-> TRUE, data |-> Null],
                [rejected |-> TRUE, error |-> FALSE, data |-> Null] }
    ELSE { [rejected |-> FALSE, error |-> FALSE, data |-> Null] }

\* what fetch() settles with: a 2xx response, another status, or a rejection
FetchOutcomes == {"ok", "notOk", "rejected"}

\* payloads of the city endpoint: with predictions, without the field, null
CityPayloads ==
    { [predictions |-> Obj(<< <<"Lisbon", 5000000>>, <<"Porto", 3000000>> >>)],
      [predictions |-> Obj(<< >>)],
      [detail |-> "no predictions"],
      Null }

\* obj.field of a JavaScript object (undefined when the field is absent)
Field(obj, f) == IF f \in DOMAIN obj THEN obj[f] ELSE Undefined

\* lines 189-195 of the hook: the rpc payload mapped field by field
MapRpcData(data) ==
    [ downtime_probability |-> data.probability,
      threshold            |-> data.threshold,
      alert_triggered      |-> data.alert_triggered,
      contributing_factors |-> data.contributing_factors,
      recommendation       |-> data.recommendation ]

\* Math.abs(x)
Abs(x) == IF x < 0 THEN 0 - x ELSE x

\* predictDowntimeSimplified lines 71-83: what it returns once the body is
\* parsed; r1, r2, r3 are its three Math.random() draws
predictDowntimeSimplified_Return(params, data, r1, r2, r3) ==
    [ downtime_probability |->
          ToFixed2((((r1 * Scale) \div RandomSteps) * 8) \div 10 + (Scale \div 10)),
      threshold            |-> (7 * Scale) \div 10,
      alert_triggered      |-> (r2 * Scale) \div RandomSteps > (6 * Scale) \div 10,
      contributing_factors |->
          << [name |-> "BGP Metric",
              impact |-> ToFixed2((Abs(params.metric_bgp) * 7) \div 10)],
             [name |-> "Network Instability",
              impact |-> ToFixed2(((r3 * Scale) \div RandomSteps) \div 2)] >>,
      recommendation       |->
          "Monitor BGP metrics closely and consider routing adjustments." ]

\* mutant: the catch of getCityPredictions rethrows instead of falling back
getCityPredictions_Catch_Rethrow(country) == [threw |-> TRUE, value |-> Null]

\* getCityPredictions lines 123-186: the catch block
getCityPredictions_Catch(country) ==
    [ threw |-> FALSE,
      value |-> IF country = "Spain" THEN [predictions |-> fallback_Spain]
                ELSE IF country = "UnitedStates"
                     THEN [predictions |-> fallback_UnitedStates]
                ELSE IF country = "UnitedKingdom"
                     THEN [predictions |-> fallback_UnitedKingdom]
                ELSE [predictions |-> Obj(<< >>)] ]

\* getCityPredictions line 111: clearTimeout(timeoutId) runs as soon as fetch
\* resolves, so the deadline timer is not armed while the body is read
TimerArmedAfterResponse == FALSE

(***************************************************************************)
(* usePrediction: requests                                                 *)
(***************************************************************************)
\* requests of the advanced form used with the hook
HookRequests ==
    { [ region |-> "kenya", latency_ms |-> 0, packet_loss |-> 0,
        temperature |-> 25, wind_speed |-> 5, humidity |-> 60 ],
      [ region |-> "kenya", latency_ms |-> 1000, packet_loss |-> 1000,
        temperature |-> 40, wind_speed |-> 25, humidity |-> 95 ] }

NetworkQualities == {"good", "moderate", "poor"}
WeatherConditions == {"normal", "extreme_heat", "extreme_cold", "rainy", "stormy"}

\* requests of the simplified form (metric_bgp is the form's default -0.2071)
SimplifiedRequests ==
    [ region : {"Europe"}, metric_bgp : {0 - ((2071 * Scale) \div 10000)},
      network_quality : NetworkQualities, weather_condition : WeatherConditions ]

HookSimplifiedRequests ==
    { q \in SimplifiedRequests :
        \/ q.network_quality = "good" /\ q.weather_condition = "normal"
        \/ q.network_quality = "poor" /\ q.weather_condition = "stormy" }

\* the Math.random() draws the hook's runs are explored with
HookRandoms == {0, RandomSteps - 1}

\* mutant: poor network quality converted to the figures of an outage
fullRequest_PoorAsOutage(v) ==
    [ region |-> v.region,
      latency_ms |-> IF v.network_quality = "good" THEN 50
                     ELSE IF v.network_quality = "moderate" THEN 150 ELSE 3000,
      packet_loss |-> IF v.network_quality = "good" THEN 5
                      ELSE IF v.network_quality = "moderate" THEN 20 ELSE 80,
      temperature |-> IF v.weather_condition = "normal" THEN 25
                      ELSE IF v.weather_condition = "extreme_heat" THEN 40
                      ELSE IF v.weather_condition = "extreme_cold" THEN 0 - 5
                      ELSE 25,
      humidity |-> IF v.weather_condition = "rainy" THEN 95 ELSE 60,
      wind_speed |-> IF v.weather_condition = "stormy" THEN 35 ELSE 5 ]

\* lines 232-243: the simplified request converted for the mock calculation
fullRequest(v) ==
    [ region |-> v.region,
      latency_ms |-> IF v.network_quality = "good" THEN 50
                     ELSE IF v.network_quality = "moderate" THEN 150 ELSE 300,
      packet_loss |-> IF v.network_quality = "good" THEN 5
                      ELSE IF v.network_quality = "moderate" THEN 20 ELSE 80,
      temperature |-> IF v.weather_condition = "normal" THEN 25
                      ELSE IF v.weather_condition = "extreme_heat" THEN 40
                      ELSE IF v.weather_condition = "extreme_cold" THEN 0 - 5
                      ELSE 25,
      humidity |-> IF v.weather_condition = "rainy" THEN 95 ELSE 60,
      wind_speed |-> IF v.weather_condition = "stormy" THEN 35 ELSE 5 ]

\* lines 266-273: the substitute input of the simplified error path
fallbackRequest(v) ==
    [ region |-> v.region, latency_ms |-> 150, packet_loss |-> 20,
      temperature |-> 25, humidity |-> 60, wind_speed |-> 5 ]

\* AddDevice.tsx lines 374-384
DEFAULT_PREDICTION_RESULT ==
    [ downtime_probability |-> (42 * Scale) \div 100,
      threshold            |-> (7 * Scale) \div 10,
      alert_triggered      |-> FALSE,
      contributing_factors |->
          << [name |-> "Network Latency", impact |-> (35 * Scale) \div 100],
             [name |-> "Packet Loss", impact |-> (25 * Scale) \div 100],
             [name |-> "Environmental Conditions", impact |-> (15 * Scale) \div 100] >>,
      recommendation       |->
          "Network conditions are stable. Continue monitoring latency and packet loss metrics." ]

(***************************************************************************)
(* usePrediction: the operations                                           *)
(*                                                                         *)
(* An invocation runs from one await to the next in one step; inflight     *)
(* lists the invocations that have started and not ended, in the order     *)
(* they started, and finished is the one that ended last.  An invocation's *)
(* record                                                                  *)
(* holds its position (pc), its argument, the user and mockMode its        *)
(* closure captured, the external calls it has issued (calls), whether the *)
(* deadline timer of getCityPredictions is armed (timer), how its external *)
(* call ended (ext: "none", "success", "malformed", "failed"), the payload *)
(* it received (data), the toast it raised, and whether an invocation that *)
(* started after it and writes the same state has already ended            *)
(* (overtaken).                                                            *)
(***************************************************************************)
AwaitingExternal == {"awaitRpc", "awaitFetch", "awaitText", "awaitJson"}
InFlight == AwaitingExternal \cup {"awaitDelay"}

NewInvocation(op, arg, pc, calls, timer) ==
    [ pc |-> pc, op |-> op, arg |-> arg, user |-> ctxUser, mockMode |-> mockMode,
      calls |-> calls, timer |-> timer, ext |-> "none", data |-> Undefined,
      toast |-> "none", overtaken |-> FALSE ]

\* s without its i-th element
Remove(s, i) == SubSeq(s, 1, i - 1) \o SubSeq(s, i + 1, Len(s))

\* the state an operation writes: getPrediction and getSimplifiedPrediction
\* share result and isLoading (lines 152-153), the city operation has
\* cityPredictions and cityPredictionsLoading (lines 154-155)
StateOf(op) ==
    IF op = "getCityPredictionsByCountry" THEN "cityPredictions" ELSE "result"

\* the invocations in flight once invocation i has ended: those that started
\* before it and write the same state have been overtaken
Leave(i) ==
    Remove([ j \in 1 .. Len(inflight) |->
               IF j < i /\ StateOf(inflight[j].op) = StateOf(inflight[i].op)
               THEN [inflight[j] EXCEPT !.overtaken = TRUE]
               ELSE inflight[j] ], i)

Finish_RetriesOnFailure(i, ext, data, toast, timer) ==
    /\ finished' = [inflight[i] EXCEPT
                       !.pc = "done", !.ext = ext, !.data = data,
                       !.toast = toast, !.timer = timer, !.overtaken = FALSE,
                       !.calls = IF ext = "failed" THEN @ + 1 ELSE @]
    /\ inflight' = Leave(i)

\* invocation i has run to its end
Finish(i, ext, data, toast, timer) ==
    /\ finished' = [inflight[i] EXCEPT !.pc = "done", !.ext = ext, !.data = data,
                                       !.toast = toast, !.timer = timer,
                                       !.overtaken = FALSE]
    /\ inflight' = Leave(i)

\* invocation i goes on to its next await
Continue(i, pc, timer) ==
    /\ inflight' = [inflight EXCEPT ![i].pc = pc, ![i].timer = timer]
    /\ UNCHANGED finished

\* a new invocation is called
Begin(invocation) ==
    /\ Len(inflight) < MaxInvocations
    /\ inflight' = Append(inflight, invocation)
    /\ UNCHANGED finished

Running(i, op, pc) ==
    /\ i <= Len(inflight)
    /\ inflight[i].op = op
    /\ inflight[i].pc = pc

\* lines 203, 245 and 290: every simulated delay is setTimeout(resolve, 1000),
\* so the timers fire in the order they were set: invocation i's delay is
\* over only when no invocation that started before it is still in its own
DelayDue(i) == \A j \in 1 .. (i - 1) : inflight[j].pc # "awaitDelay"

\* mutant: mock mode no longer keeps getPrediction off the backend
DirectUsesApi_IgnoresMockMode == ctxUser # "null"

\* line 175: user && !mockMode && supabase (supabase is always an object)
DirectUsesApi == ctxUser # "null" /\ ~mockMode

\* lines 230 and 289: !user || mockMode
UsesMock == ctxUser = "null" \/ mockMode

\* setMockResult(DEFAULT_PREDICTION_RESULT), the page's effect
setMockResult ==
    /\ result' = DEFAULT_PREDICTION_RESULT
    /\ UNCHANGED <<isLoading, cityPredictions, cityPredictionsLoading, inflight,
                   finished,
                   authVars, scorerVars, classifierVars, alertVars>>

------------------------------------------------------------------------------
\* getPrediction

getPrediction_Start(requests) ==
    /\ \E v \in requests :
         Begin(IF DirectUsesApi
                   THEN NewInvocation("getPrediction", v, "awaitRpc", 1, FALSE)
                   ELSE NewInvocation("getPrediction", v, "awaitDelay", 0, FALSE))
    /\ isLoading' = TRUE
    /\ UNCHANGED <<result, cityPredictions, cityPredictionsLoading,
                   authVars, scorerVars, classifierVars, alertVars>>

\* mutant: the inner catch rethrows instead of scoring locally
getPrediction_Try_Rethrow(v, outcome, r) ==
    IF ~outcome.rejected /\ ~outcome.error /\ outcome.data # Null
    THEN [threw |-> FALSE, value |-> MapRpcData(outcome.data)]
    ELSE [threw |-> TRUE, value |-> Null]

\* lines 176-200: the inner try/catch around the rpc
getPrediction_Try(v, outcome, r) ==
    IF ~outcome.rejected /\ ~outcome.error /\ outcome.data # Null
    THEN [threw |-> FALSE, value |-> MapRpcData(outcome.data)]
    ELSE [threw |-> FALSE, value |-> calculateMockProbability(v, r)]

RpcExt(outcome) ==
    IF outcome.rejected \/ outcome.error THEN "failed"
    ELSE IF outcome.data = Null THEN "malformed" ELSE "success"

\* lines 177-221 after the rpc settled
getPrediction_RpcSettled(i, randoms) ==
    /\ Running(i, "getPrediction", "awaitRpc")
    /\ \E outcome \in RpcOutcomes, r \in randoms :
         LET t == getPrediction_Try(inflight[i].arg, outcome, r)
         IN  /\ result' = IF t.threw THEN result ELSE t.value
             /\ Finish(i, RpcExt(outcome), outcome.data,
                                   IF t.threw THEN "failed" ELSE "completed",
                                   FALSE)
    /\ isLoading' = FALSE
    /\ UNCHANGED <<cityPredictions, cityPredictionsLoading,
                   authVars, scorerVars, classifierVars, alertVars>>

\* lines 203-221 after the simulated delay
getPrediction_DelayElapsed(i, randoms) ==
    /\ Running(i, "getPrediction", "awaitDelay")
    /\ DelayDue(i)
    /\ \E r \in randoms :
         result' = calculateMockProbability(inflight[i].arg, r)
    /\ Finish(i, "none", Undefined, "completed", FALSE)
    /\ isLoading' = FALSE
    /\ UNCHANGED <<cityPredictions, cityPredictionsLoading,
                   authVars, scorerVars, classifierVars, alertVars>>

------------------------------------------------------------------------------
\* getSimplifiedPrediction (and predictDowntimeSimplified)

getSimplifiedPrediction_Start(requests) ==
    /\ \E v \in requests :
         Begin(IF UsesMock
                   THEN NewInvocation("getSimplifiedPrediction", v, "awaitDelay", 0, FALSE)
                   ELSE NewInvocation("getSimplifiedPrediction", v, "awaitFetch", 1, FALSE))
    /\ isLoading' = TRUE
    /\ UNCHANGED <<result, cityPredictions, cityPredictionsLoading,
                   authVars, scorerVars, classifierVars, alertVars>>

\* lines 245-257 and 277-279
getSimplifiedPrediction_DelayElapsed(i, randoms) ==
    /\ Running(i, "getSimplifiedPrediction", "awaitDelay")
    /\ DelayDue(i)
    /\ \E r \in randoms :
         result' = calculateMockProbability(fullRequest(inflight[i].arg), r)
    /\ Finish(i, "none", Undefined, "completed", FALSE)
    /\ isLoading' = FALSE
    /\ UNCHANGED <<cityPredictions, cityPredictionsLoading,
                   authVars, scorerVars, classifierVars, alertVars>>

\* mutant: the catch only raises the toast and stores nothing
getSimplifiedPrediction_Catch_NoResult(v, r) == result

\* lines 258-276: the catch block's setResult
getSimplifiedPrediction_Catch(v, r) ==
    calculateMockProbability(fallbackRequest(v), r)

\* predictDowntimeSimplified lines 50-69 after fetch settled: a non-2xx
\* status or a rejection is thrown on to the hook's catch
getSimplifiedPrediction_FetchSettled(i, randoms) ==
    /\ Running(i, "getSimplifiedPrediction", "awaitFetch")
    /\ \E outcome \in FetchOutcomes, r \in randoms :
         IF outcome = "ok"
         THEN /\ Continue(i, "awaitJson", FALSE)
              /\ UNCHANGED <<result, isLoading>>
         ELSE /\ result' = getSimplifiedPrediction_Catch(inflight[i].arg, r)
              /\ Finish(i, "failed", Undefined, "failed", FALSE)
              /\ isLoading' = FALSE
    /\ UNCHANGED <<cityPredictions, cityPredictionsLoading,
                   authVars, scorerVars, classifierVars, alertVars>>

\* predictDowntimeSimplified lines 71-87 after response.json() settled, then
\* lines 251-257 (or the catch) of the hook
getSimplifiedPrediction_JsonSettled(i, randoms) ==
    /\ Running(i, "getSimplifiedPrediction", "awaitJson")
    /\ \/ \E data \in ExternalResults, r1 \in randoms, r2 \in randoms,
             r3 \in randoms :
            /\ result' = predictDowntimeSimplified_Return(inflight[i].arg, data, r1, r2, r3)
            /\ Finish(i, "success", data, "completed", FALSE)
       \/ \E r \in randoms :   \* the body is not JSON
            /\ result' = getSimplifiedPrediction_Catch(inflight[i].arg, r)
            /\ Finish(i, "failed", Undefined, "failed", FALSE)
    /\ isLoading' = FALSE
    /\ UNCHANGED <<cityPredictions, cityPredictionsLoading,
                   authVars, scorerVars, classifierVars, alertVars>>

------------------------------------------------------------------------------
\* getCityPredictionsByCountry (and getCityPredictions)

\* mutant: the request starts without clearing the stored map
getCityPredictionsByCountry_Start_KeepsOldMap(countries) ==
    /\ \E country \in countries :
         Begin(IF UsesMock
                   THEN NewInvocation("getCityPredictionsByCountry", country,
                                      "awaitDelay", 0, FALSE)
                   ELSE NewInvocation("getCityPredictionsByCountry", country,
                                      "awaitFetch", 1, TRUE))
    /\ cityPredictionsLoading' = TRUE
    /\ UNCHANGED <<cityPredictions, isLoading, result, authVars, scorerVars,
                   classifierVars, alertVars>>

getCityPredictionsByCountry_Start(countries) ==
    /\ \E country \in countries :
         Begin(IF UsesMock
                   THEN NewInvocation("getCityPredictionsByCountry", country,
                                      "awaitDelay", 0, FALSE)
                   \* getCityPredictions lines 100-109: timer armed, fetch issued
                   ELSE NewInvocation("getCityPredictionsByCountry", country,
                                      "awaitFetch", 1, TRUE))
    /\ cityPredictionsLoading' = TRUE
    /\ cityPredictions' = Null
    /\ UNCHANGED <<isLoading, result, authVars, scorerVars, classifierVars, alertVars>>

\* lines 290-302 and 313-315
getCityPredictionsByCountry_DelayElapsed(i) ==
    /\ Running(i, "getCityPredictionsByCountry", "awaitDelay")
    /\ DelayDue(i)
    /\ cityPredictions' = getMockCityPredictions(inflight[i].arg)
    /\ Finish(i, "none", Undefined, "loaded", FALSE)
    /\ cityPredictionsLoading' = FALSE
    /\ UNCHANGED <<isLoading, result, authVars, scorerVars, classifierVars, alertVars>>

\* lines 295-315 of the hook once getCityPredictions has settled with t: a
\* thrown error, or a null response (reading .predictions of null throws),
\* ends in the hook's catch
StoreCityResponse(i, t, ext, data, timer) ==
    /\ IF t.threw \/ t.value = Null
       THEN /\ cityPredictions' = getMockCityPredictions(inflight[i].arg)
            /\ Finish(i, ext, data, "failed", timer)
       ELSE /\ cityPredictions' = Field(t.value, "predictions")
            /\ Finish(i, ext, data, "loaded", timer)
    /\ cityPredictionsLoading' = FALSE

\* getCityPredictions lines 103-117 after fetch settled
getCityPredictions_FetchSettled(i) ==
    /\ Running(i, "getCityPredictionsByCountry", "awaitFetch")
    /\ \E outcome \in FetchOutcomes :
         IF outcome = "rejected"
         THEN StoreCityResponse(i, getCityPredictions_Catch(inflight[i].arg),
                                "failed", Undefined, inflight[i].timer)
         ELSE /\ Continue(i, IF outcome = "ok" THEN "awaitJson" ELSE "awaitText",
                           TimerArmedAfterResponse)
              /\ UNCHANGED <<cityPredictions, cityPredictionsLoading>>
    /\ UNCHANGED <<isLoading, result, authVars, scorerVars, classifierVars, alertVars>>

\* lines 114-116: the error body was read (or could not be); either way the
\* API error is thrown into the catch
getCityPredictions_TextSettled(i) ==
    /\ Running(i, "getCityPredictionsByCountry", "awaitText")
    /\ StoreCityResponse(i, getCityPredictions_Catch(inflight[i].arg),
                         "failed", Undefined, inflight[i].timer)
    /\ UNCHANGED <<isLoading, result, authVars, scorerVars, classifierVars, alertVars>>

\* lines 119-122: response.json() settled
getCityPredictions_JsonSettled(i) ==
    /\ Running(i, "getCityPredictionsByCountry", "awaitJson")
    /\ \/ \E data \in CityPayloads :
            StoreCityResponse(i, [threw |-> FALSE, value |-> data],
                              IF data # Null /\ "predictions" \in DOMAIN data
                              THEN "success" ELSE "malformed",
                              data, inflight[i].timer)
       \/ \* the body is not JSON
          StoreCityResponse(i, getCityPredictions_Catch(inflight[i].arg),
                            "failed", Undefined, inflight[i].timer)
    /\ UNCHANGED <<isLoading, result, authVars, scorerVars, classifierVars, alertVars>>

\* line 101: the 10 second timer, while still armed, fires and
\* controller.abort() runs: the pending fetch (or body read) of the
\* outstanding call rejects with an AbortError, which the catch turns into
\* the fallback.  (A timer left armed by a call that has ended aborts
\* nothing.)
getCityPredictions_DeadlineExpired(i) ==
    /\ i <= Len(inflight)
    /\ inflight[i].op = "getCityPredictionsByCountry"
    /\ inflight[i].pc \in AwaitingExternal
    /\ inflight[i].timer
    /\ StoreCityResponse(i, getCityPredictions_Catch(inflight[i].arg),
                         "failed", Undefined, FALSE)
    /\ UNCHANGED <<isLoading, result, authVars, scorerVars, classifierVars, alertVars>>

------------------------------------------------------------------------------
HookInit ==
    /\ AuthInit
    /\ IdleHook
    /\ IdleScorer
    /\ IdleClassifier
    /\ IdleAlerts

\* an invocation of getPrediction or getSimplifiedPrediction goes on
PredictionStep(randoms) ==
    \E i \in Slots :
        \/ getPrediction_RpcSettled(i, randoms)
        \/ getPrediction_DelayElapsed(i, randoms)
        \/ getSimplifiedPrediction_DelayElapsed(i, randoms)
        \/ getSimplifiedPrediction_FetchSettled(i, randoms)
        \/ getSimplifiedPrediction_JsonSettled(i, randoms)

\* an invocation of getCityPredictionsByCountry goes on
CityStep ==
    \E i \in Slots :
        \/ getCityPredictionsByCountry_DelayElapsed(i)
        \/ getCityPredictions_FetchSettled(i)
        \/ getCityPredictions_TextSettled(i)
        \/ getCityPredictions_JsonSettled(i)
        \/ getCityPredictions_DeadlineExpired(i)

\* The page with its three forms.  The three operations run side by side, so
\* this specification explores them with one request per form, two
\* countries and one Math.random() value; SpecPrediction and SpecCity explore each part with more.
PageRequests == { v \in HookRequests : v.latency_ms = 1000 }
PageSimplifiedRequests ==
    { q \in HookSimplifiedRequests : q.network_quality = "poor" }
PageCountries == {"Spain", "Kenya"}
PageRandoms == {RandomSteps \div 2}

HookNext ==
    \/ AuthNext
    \/ setMockResult
    \/ getPrediction_Start(PageRequests)
    \/ getSimplifiedPrediction_Start(PageSimplifiedRequests)
    \/ getCityPredictionsByCountry_Start(PageCountries)
    \/ PredictionStep(PageRandoms)
    \/ CityStep

Spec == HookInit /\ [][HookNext]_vars

\* getPrediction and getSimplifiedPrediction alone
PredictionNext ==
    \/ AuthNext
    \/ setMockResult
    \/ getPrediction_Start(HookRequests)
    \/ getSimplifiedPrediction_Start(HookSimplifiedRequests)
    \/ PredictionStep(HookRandoms)

SpecPrediction == HookInit /\ [][PredictionNext]_vars

\* getCityPredictionsByCountry alone
CityNext ==
    \/ AuthNext
    \/ getCityPredictionsByCountry_Start(Countries)
    \/ CityStep

SpecCity == HookInit /\ [][CityNext]_vars

(***************************************************************************)
(* Claims about the hook and the services                                  *)
(***************************************************************************)
\* a step in which an invocation ends (finished' is that invocation)
Completes == Len(inflight') < Len(inflight)

\* r ranges over every Math.random() value of the model
ScoredFrom(res, v) == \E r \in Randoms : res = calculateMockProbability(v, r)

StaticCityMaps ==
    { predictionsByCountry[k] : k \in DOMAIN predictionsByCountry }
    \cup { fallback_Spain, fallback_UnitedStates, fallback_UnitedKingdom,
           Obj(<< >>) }

\* the closure of invocation x saw no user, or mock mode
MockClosure(x) == x.user = "null" \/ x.mockMode

\* C3: in every auth state and for every external outcome each of the three
\* operations ends normally (never by rejecting), and after a failed external
\* call what it stored is a result of the scorer, or a city map of a static
\* table (possibly the empty one).
C3_NeverRejectsDegradesToValid ==
    [][ Completes =>
          /\ finished'.pc = "done"
          /\ finished'.ext = "failed" =>
               /\ finished'.op = "getPrediction" =>
                    ScoredFrom(result', finished'.arg)
               /\ finished'.op = "getSimplifiedPrediction" =>
                    ScoredFrom(result', fallbackRequest(finished'.arg))
               /\ finished'.op = "getCityPredictionsByCountry" =>
                    cityPredictions' \in StaticCityMaps ]_vars

\* C3 witness: a real user's simplified prediction whose fetch failed has
\* ended normally and the scorer's result for the substitute input is stored.
C3_Witness ==
    /\ finished.pc = "done"
    /\ finished.op = "getSimplifiedPrediction"
    /\ finished.user = "real"
    /\ finished.ext = "failed"
    /\ ScoredFrom(result, fallbackRequest(finished.arg))

\* C4: an invocation made with no user or in mock mode issues no external
\* call: it only waits for the delay, and what it stores when it ends is the
\* local scorer's result or the local city table.
C4_NoExternalCallInMockInv ==
    /\ \A i \in 1 .. Len(inflight) :
         MockClosure(inflight[i]) =>
             inflight[i].calls = 0 /\ inflight[i].pc = "awaitDelay"
    /\ finished.pc = "done" /\ MockClosure(finished) =>
         finished.calls = 0 /\ finished.ext = "none"

C4_MockStoresLocalResult ==
    Completes /\ MockClosure(finished') =>
        /\ finished'.op = "getPrediction" => ScoredFrom(result', finished'.arg)
        /\ finished'.op = "getSimplifiedPrediction" =>
             ScoredFrom(result', fullRequest(finished'.arg))
        /\ finished'.op = "getCityPredictionsByCountry" =>
             cityPredictions' = getMockCityPredictions(finished'.arg)

C4_MockModeSkipsExternalCall ==
    []C4_NoExternalCallInMockInv /\ [][C4_MockStoresLocalResult]_vars

\* C4 witness: in mock mode (demo user) a city request has ended without any
\* external call and the local table of its country is stored.
C4_Witness ==
    /\ finished.pc = "done"
    /\ finished.op = "getCityPredictionsByCountry"
    /\ finished.mockMode
    /\ finished.user = "mock"
    /\ finished.calls = 0
    /\ finished.arg = "Spain"
    /\ cityPredictions = mock_spain

\* C5 (as claimed): when the external call of a real user succeeds, every
\* field of the stored result is the value of the external response, for
\* getPrediction and for getSimplifiedPrediction alike.
C5_SuccessStoresExternalResultAsIs ==
    [][ Completes /\ finished'.ext = "success" /\ finished'.user = "real"
            /\ ~finished'.mockMode
          => result' = MapRpcData(finished'.data) ]_vars

\* C6: when the external call of an authenticated user fails, getPrediction
\* stores the scorer's result for the request itself and
\* getSimplifiedPrediction the scorer's result for the fixed substitute input
\* {latency_ms 150, packet_loss 2 %, temperature 25, humidity 60, wind_speed 5}
\* with the request's region.
C6_FailureFallsBackToScorer ==
    [][ Completes /\ finished'.ext = "failed" =>
          /\ finished'.user = "real"
          /\ finished'.op = "getPrediction" => ScoredFrom(result', finished'.arg)
          /\ finished'.op = "getSimplifiedPrediction" =>
               ScoredFrom(result',
                          [ region |-> finished'.arg.region, latency_ms |-> 150,
                            packet_loss |-> 20, temperature |-> 25,
                            humidity |-> 60, wind_speed |-> 5 ]) ]_vars

\* C6 witness: a real user's getPrediction whose rpc failed has ended and the
\* scorer's result for its request is stored.
C6_Witness ==
    /\ finished.pc = "done"
    /\ finished.op = "getPrediction"
    /\ finished.user = "real"
    /\ finished.ext = "failed"
    /\ finished.arg.latency_ms = 1000
    /\ ScoredFrom(result, finished.arg)

\* C7: when the external city call fails (rejection, non-2xx status, body
\* that is not JSON, or abort by the deadline) getCityPredictions returns the
\* literal table of Spain, UnitedStates or UnitedKingdom if that is the
\* country, and otherwise an empty map; it does not throw (the hook's catch
\* does not run, so the toast is the success one).
C7_CityFailureReturnsFallbackTable ==
    [][ Completes /\ finished'.op = "getCityPredictionsByCountry"
            /\ finished'.ext = "failed"
          => /\ finished'.toast = "loaded"
             /\ cityPredictions' =
                  CASE finished'.arg = "Spain" -> fallback_Spain
                    [] finished'.arg = "UnitedStates" -> fallback_UnitedStates
                    [] finished'.arg = "UnitedKingdom" -> fallback_UnitedKingdom
                    [] OTHER -> Obj(<< >>) ]_vars

\* C7 witness: a failed city call for a country without a literal table
\* has ended with the empty map stored.
C7_Witness ==
    /\ finished.pc = "done"
    /\ finished.op = "getCityPredictionsByCountry"
    /\ finished.ext = "failed"
    /\ finished.arg = "Kenya"
    /\ finished.toast = "loaded"
    /\ cityPredictions = Obj(<< >>)

\* C8 (as claimed): at every stage of an outstanding city call (waiting for
\* the response, reading the error body, reading the JSON body) the deadline
\* timer is armed.
C8_DeadlineArmedWhileOutstanding ==
    \A i \in 1 .. Len(inflight) :
        inflight[i].op = "getCityPredictionsByCountry"
            /\ inflight[i].pc \in AwaitingExternal
        => inflight[i].timer

(***************************************************************************)
(* The CityPredictions component (classifier and renderer)                 *)
(***************************************************************************)
MaxCities == 3

CityNames == {"Madrid", "Seville", "Vigo", "Bilbao"}

\* probabilities in units of 1e-9: zero, the tier thresholds 0.004 and 0.006,
\* the pin threshold 0.005, 0.0068 and a value of the 0-1 scale
CityProbabilities ==
    {0, 4 * 1000 * 1000, 5 * 1000 * 1000, 6 * 1000 * 1000, 6800 * 1000,
     550 * 1000 * 1000}

\* entry sequences of at most MaxCities entries with distinct keys
CityMaps ==
    { m \in UNION { [1 .. n -> CityNames \X CityProbabilities] :
                      n \in 0 .. MaxCities } :
        \A i, j \in DOMAIN m : m[i][1] = m[j][1] => i = j }

\* the maps the hook and the service hold as literals
StaticCityTables ==
    { mock_spain, mock_kenya, mock_brazil, mock_india, mock_indonesia,
      mock_nigeria, mock_unitedstates, mock_unitedkingdom,
      fallback_Spain, fallback_UnitedStates, fallback_UnitedKingdom }

\* the props the page can pass: the hook's cityPredictions (null, undefined
\* or an object), its loading flag and the selected country
ClassifierProps ==
    [ cityPredictions : {Null, Undefined} \cup { Obj(m) : m \in CityMaps }
                          \cup StaticCityTables,
      cityPredictionsLoading : BOOLEAN,
      country : {"Spain"} ]

NaN == [nan |-> TRUE]
Infinity == [infinity |-> TRUE]
MinusInfinity == [minusInfinity |-> TRUE]

\* a / b of two non-negative numbers, kept as an exact ratio; 0 / 0 is NaN
\* and a / 0 is Infinity
Divide(a, b) ==
    IF b = 0
    THEN IF a = 0 THEN NaN ELSE Infinity
    ELSE [num |-> a, den |-> b]

\* Math.max(...values); Math.max() of nothing is -Infinity
MathMax(vs) ==
    IF vs = << >>
    THEN MinusInfinity
    ELSE CHOOSE x \in { vs[i] : i \in DOMAIN vs } :
             \A i \in DOMAIN vs : vs[i] <= x

ObjectValues(obj) == [i \in DOMAIN obj.entries |-> obj.entries[i][2]]

SortInsert_BeforeEquals(s, e) ==
    LET k == Cardinality({ i \in DOMAIN s : s[i][2] > e[2] })
    IN  SubSeq(s, 1, k) \o <<e>> \o SubSeq(s, k + 1, Len(s))

\* the stable Array.prototype.sort with comparator (a, b) => b[1] - a[1]:
\* e goes after every entry whose value is not smaller
SortInsert(s, e) ==
    LET k == Cardinality({ i \in DOMAIN s : s[i][2] >= e[2] })
    IN  SubSeq(s, 1, k) \o <<e>> \o SubSeq(s, k + 1, Len(s))

RECURSIVE SortByProbability(_)
SortByProbability(es) ==
    IF es = << >>
    THEN << >>
    ELSE SortInsert(SortByProbability(SubSeq(es, 1, Len(es) - 1)), es[Len(es)])

\* (probability * 100).toFixed(4), in units of 0.0001 %
percentage(probability) == (probability + 500) \div 1000

riskLevel_SmallScaleOnly(probability) ==
    IF probability > 10 * 1000 * 1000 THEN "Lower Risk"
    ELSE IF probability > 6 * 1000 * 1000 THEN "Higher Risk"
    ELSE IF probability > 4 * 1000 * 1000 THEN "Moderate Risk"
    ELSE "Lower Risk"

riskLevel_NonStrict(probability) ==
    IF probability >= 6 * 1000 * 1000 THEN "Higher Risk"
    ELSE IF probability >= 4 * 1000 * 1000 THEN "Moderate Risk"
    ELSE "Lower Risk"

\* lines 78-90: riskLevel
riskLevel(probability) ==
    IF probability > 6 * 1000 * 1000 THEN "Higher Risk"
    ELSE IF probability > 4 * 1000 * 1000 THEN "Moderate Risk"
    ELSE "Lower Risk"

barColor(probability) ==
    IF probability > 6 * 1000 * 1000 THEN "bg-red-500"
    ELSE IF probability > 4 * 1000 * 1000 THEN "bg-amber-500"
    ELSE "bg-emerald-500"

\* lines 104-110: the class of the risk badge
badgeColor(probability) ==
    IF probability > 6 * 1000 * 1000 THEN "bg-red-100 text-red-700"
    ELSE IF probability > 4 * 1000 * 1000 THEN "bg-amber-100 text-amber-700"
    ELSE "bg-emerald-100 text-emerald-700"

\* lines 123-129: the class of the percentage text
percentageColor(probability) ==
    IF probability > 6 * 1000 * 1000 THEN "text-red-600"
    ELSE IF probability > 4 * 1000 * 1000 THEN "text-amber-600"
    ELSE "text-emerald-600"

\* one row of the list, lines 73-145; barFraction is the bar's width / 100 %
Row(entry, maxProbability) ==
    [ city |-> entry[1],
      probability |-> entry[2],
      percentage |-> percentage(entry[2]),
      riskLevel |-> riskLevel(entry[2]),
      barColor |-> barColor(entry[2]),
      badgeColor |-> badgeColor(entry[2]),
      percentageColor |-> percentageColor(entry[2]),
      pinColor |-> IF entry[2] > 5 * 1000 * 1000
                   THEN "text-amber-500" ELSE "text-emerald-500",
      barFraction |-> Divide(entry[2], maxProbability),
      warning |-> entry[2] > 5 * 1000 * 1000 ]

\* lines 44-146: the maximum and the sorted rows
RenderList(p) ==
    LET maxProbability == MathMax(ObjectValues(p.cityPredictions))
        sorted == SortByProbability(p.cityPredictions.entries)
    IN  [ kind |-> "list",
          country |-> p.country,
          count |-> Len(p.cityPredictions.entries),
          maxProbability |-> maxProbability,
          rows |-> [i \in DOMAIN sorted |-> Row(sorted[i], maxProbability)] ]

CityPredictions_NoEmptyCheck(p) ==
    IF p.cityPredictionsLoading THEN [kind |-> "loading"]
    ELSE IF p.cityPredictions \in {Null, Undefined} THEN [kind |-> "placeholder"]
    ELSE RenderList(p)

\* what the component renders for props p
CityPredictions(p) ==
    IF p.cityPredictionsLoading THEN [kind |-> "loading"]
    ELSE IF p.cityPredictions \in {Null, Undefined} THEN [kind |-> "placeholder"]
    ELSE IF Len(p.cityPredictions.entries) = 0
         THEN [kind |-> "nodata", country |-> p.country]
    ELSE RenderList(p)

ClassifierInit ==
    /\ props \in ClassifierProps
    /\ view = NoView
    /\ IdleScorer
    /\ IdleAuth
    /\ IdleHook
    /\ IdleAlerts

\* React renders the component with its props
Render ==
    /\ view = NoView
    /\ view' = CityPredictions(props)
    /\ UNCHANGED <<props, scorerVars, authVars, hookVars, alertVars>>

\* the component is unmounted (the tab is left)
Unmount ==
    /\ view # NoView
    /\ view' = NoView
    /\ UNCHANGED <<props, scorerVars, authVars, hookVars, alertVars>>

ClassifierNext == Render \/ Unmount

SpecClassifier == ClassifierInit /\ [][ClassifierNext]_vars

\* C9 (as claimed): for every non-empty map the rows are in non-increasing
\* order of probability and the first row's bar fraction
\* probability / maxProbability is exactly 1.
C9_SortedAndTopBarIsFull ==
    view # NoView /\ view.kind = "list" =>
        /\ \A i \in 1 .. (Len(view.rows) - 1) :
             view.rows[i].probability >= view.rows[i + 1].probability
        /\ "num" \in DOMAIN view.rows[1].barFraction
        /\ view.rows[1].barFraction.num = view.rows[1].barFraction.den

\* C10: once loading is over, the "no data" outcome is rendered for exactly
\* the empty map, and it carries no maximum and no rows; null (or undefined)
\* renders the placeholder and a non-empty map the list, with one row per
\* entry.
C10_NoDataExactlyForEmptyMap ==
    view # NoView /\ ~props.cityPredictionsLoading =>
        LET isMap == props.cityPredictions \notin {Null, Undefined}
            empty == isMap /\ props.cityPredictions.entries = << >>
        IN  /\ view.kind = "nodata" <=> empty
            /\ view.kind = "nodata" =>
                 DOMAIN view \cap {"maxProbability", "rows"} = {}
            /\ view.kind = "placeholder" <=> ~isMap
            /\ view.kind = "list" <=> isMap /\ ~empty
            /\ view.kind = "list" =>
                 /\ Len(view.rows) = Len(props.cityPredictions.entries)
                 /\ Len(view.rows) > 0

\* C10 witness: the empty map, not loading, is rendered as "no data".
C10_Witness ==
    /\ props.cityPredictions = Obj(<< >>)
    /\ ~props.cityPredictionsLoading
    /\ view = [kind |-> "nodata", country |-> "Spain"]

(***************************************************************************)
(* Claims about the tiers of the CityPredictions rows                      *)
(***************************************************************************)
\* the three tiers as the thresholds 0.004 and 0.006 define them
Tiers == {"Lower", "Moderate", "Higher"}
InTier(t, p) ==
    CASE t = "Higher" -> p > 6 * 1000 * 1000
      [] t = "Moderate" -> p > 4 * 1000 * 1000 /\ p <= 6 * 1000 * 1000
      [] t = "Lower" -> p <= 4 * 1000 * 1000
TierRank(t) == CASE t = "Lower" -> 1 [] t = "Moderate" -> 2 [] t = "Higher" -> 3
\* the label and the colour classes a tier is shown with
TierLook(t) ==
    CASE t = "Higher" ->
           [ riskLevel |-> "Higher Risk", barColor |-> "bg-red-500",
             badgeColor |-> "bg-red-100 text-red-700",
             percentageColor |-> "text-red-600" ]
      [] t = "Moderate" ->
           [ riskLevel |-> "Moderate Risk", barColor |-> "bg-amber-500",
             badgeColor |-> "bg-amber-100 text-amber-700",
             percentageColor |-> "text-amber-600" ]
      [] t = "Lower" ->
           [ riskLevel |-> "Lower Risk", barColor |-> "bg-emerald-500",
             badgeColor |-> "bg-emerald-100 text-emerald-700",
             percentageColor |-> "text-emerald-600" ]
\* the tier a row is labelled with
RowTier(row) == CHOOSE t \in Tiers : TierLook(t).riskLevel = row.riskLevel

\* C11: every row's probability lies in exactly one of the tiers p > 0.006
\* (Higher), 0.004 < p <= 0.006 (Moderate), p <= 0.004 (Lower); the row's
\* label, badge colour, bar colour and percentage colour are all those of
\* that tier, whatever the other rows are; and among the rows the tier is
\* monotone in the probability.
C11_TierPartitionMonotoneConsistent ==
    view # NoView /\ view.kind = "list" =>
        /\ \A i \in DOMAIN view.rows :
             LET row == view.rows[i]
                 ts == { t \in Tiers : InTier(t, row.probability) }
             IN  /\ Cardinality(ts) = 1
                 /\ \A t \in ts :
                      /\ row.riskLevel = TierLook(t).riskLevel
                      /\ row.barColor = TierLook(t).barColor
                      /\ row.badgeColor = TierLook(t).badgeColor
                      /\ row.percentageColor = TierLook(t).percentageColor
        /\ \A i, j \in DOMAIN view.rows :
             view.rows[i].probability <= view.rows[j].probability =>
                 TierRank(RowTier(view.rows[i])) <= TierRank(RowTier(view.rows[j]))

\* C11 witness: a list whose rows are one Higher row (0.0068), a Moderate row
\* at the upper boundary 0.006 and a Lower row at the boundary 0.004.
C11_Witness ==
    /\ view # NoView /\ view.kind = "list"
    /\ Len(view.rows) = 3
    /\ view.rows[1].probability = 6800 * 1000
    /\ view.rows[1].riskLevel = "Higher Risk"
    /\ view.rows[2].probability = 6 * 1000 * 1000
    /\ view.rows[2].riskLevel = "Moderate Risk"
    /\ view.rows[3].probability = 4 * 1000 * 1000
    /\ view.rows[3].riskLevel = "Lower Risk"

(***************************************************************************)
(* Further claims about the scorer (checked under SpecScorer)              *)
(***************************************************************************)
\* C12: whatever the input and the jitter, contributing_factors is the
\* ordered list Network Latency 0.35, Packet Loss 0.30, Environmental
\* Conditions 0.25: exactly 3 entries whose impacts sum to 0.90.
C12_StaticContributingFactors ==
    scored # NoResult =>
        /\ Len(scored.contributing_factors) = 3
        /\ scored.contributing_factors =
             << [name |-> "Network Latency", impact |-> 35000],
                [name |-> "Packet Loss", impact |-> 30000],
                [name |-> "Environmental Conditions", impact |-> 25000] >>
        /\ scored.contributing_factors[1].impact
             + scored.contributing_factors[2].impact
             + scored.contributing_factors[3].impact = (90 * Scale) \div 100

\* C12 witness: an input without any latency or packet loss but with all
\* three environmental penalties was scored, and the list is the usual one.
C12_Witness ==
    /\ scored # NoResult
    /\ values.latency_ms = 0 /\ values.packet_loss = 0
    /\ values.temperature = 60 /\ values.humidity = 100 /\ values.wind_speed = 21
    /\ scored.contributing_factors[1] =
         [name |-> "Network Latency", impact |-> 35000]

\* no latency, no packet loss and no environmental condition beyond its
\* threshold
CalmInput(v) ==
    /\ v.latency_ms = 0 /\ v.packet_loss = 0
    /\ 0 <= v.temperature /\ v.temperature <= 35
    /\ v.humidity <= 90
    /\ v.wind_speed <= 20

\* C13: for an input with latency 0, packet loss 0, temperature in [0, 35],
\* humidity <= 90 and wind speed <= 20 the pre-jitter probability is exactly
\* 0, and for every jitter the returned downtime_probability lies in
\* [0, 0.1] and alert_triggered is false.
C13_CalmInputScoresZero ==
    CalmInput(values) =>
        /\ PreJitterProbability(values) = 0
        /\ scored # NoResult =>
             /\ 0 <= scored.downtime_probability
             /\ scored.downtime_probability <= Scale \div 10
             /\ ~scored.alert_triggered

\* C13 witness: the boundary input (temperature 35, humidity 90, wind 20)
\* was scored with the largest jitter and 0.10 was returned.
C13_Witness ==
    /\ scored # NoResult
    /\ values.latency_ms = 0 /\ values.packet_loss = 0
    /\ values.temperature = 35 /\ values.humidity = 90 /\ values.wind_speed = 20
    /\ scored.downtime_probability = Scale \div 10
    /\ ~scored.alert_triggered

\* C14: the input latency 1000 ms, packet loss 100 %, temperature 40,
\* wind speed 25, humidity 95 has the weighted sum 1.0; and for every input
\* whose weighted sum is at least 1.0 the pre-jitter value is clamped to 1.0,
\* the returned downtime_probability lies in [0.9, 1.0] for every jitter and
\* alert_triggered is true.
C14_SaturatedInputScoresNearOne ==
    /\ ( /\ values # NoResult
         /\ values.latency_ms = 1000 /\ values.packet_loss = 1000
         /\ values.temperature = 40 /\ values.wind_speed = 25
         /\ values.humidity = 95 )
       => WeightedSum(values) = Scale
    /\ (values # NoResult /\ WeightedSum(values) >= Scale) =>
         /\ PreJitterProbability(values) = Scale
         /\ scored # NoResult =>
              /\ (9 * Scale) \div 10 <= scored.downtime_probability
              /\ scored.downtime_probability <= Scale
              /\ scored.alert_triggered

\* C14 witness: the input of the claim was scored with the lowest jitter and
\* 0.90 was returned with the alert.
C14_Witness ==
    /\ scored # NoResult
    /\ values.latency_ms = 1000 /\ values.packet_loss = 1000
    /\ values.temperature = 40 /\ values.wind_speed = 25 /\ values.humidity = 95
    /\ scored.downtime_probability = (9 * Scale) \div 10
    /\ scored.alert_triggered

\* regions a request may name
ScorerRegions == {"kenya", "Europe", ""}

\* C18: the pre-jitter probability is
\* clamp((latency_ms / 1000) * 0.3 + (packet_loss / 100) * 0.3 + e, 0, 1)
\* with e the sum of 0.15 if temperature > 35 or < 0, 0.10 if humidity > 90
\* and 0.15 if wind_speed > 20 (strict comparisons); it does not depend on
\* the region and is non-decreasing in latency_ms and in packet_loss.
C18_PreJitterFormula ==
    values # NoResult =>
        LET e == (IF values.temperature > 35 \/ values.temperature < 0
                  THEN 15000 ELSE 0)
                 + (IF values.humidity > 90 THEN 10000 ELSE 0)
                 + (IF values.wind_speed > 20 THEN 15000 ELSE 0)
            \* 1 ms of latency and 0.1 % of packet loss each weigh 0.0003
            sum == (values.latency_ms * 30) + (values.packet_loss * 30) + e
            expected == IF sum < 0 THEN 0 ELSE IF sum > Scale THEN Scale ELSE sum
        IN  /\ PreJitterProbability(values) = expected
            /\ \A g \in ScorerRegions :
                 PreJitterProbability([values EXCEPT !.region = g]) = expected
            /\ \A l \in FormLatencies :
                 l >= values.latency_ms =>
                   PreJitterProbability([values EXCEPT !.latency_ms = l])
                     >= expected
            /\ \A q \in FormPacketLoss :
                 q >= values.packet_loss =>
                   PreJitterProbability([values EXCEPT !.packet_loss = q])
                     >= expected

\* C18 witness: an input at the boundaries 35, 90 and 20 with latency 150 ms
\* and packet loss 2 % was scored; its pre-jitter value is 0.045 + 0.006 and
\* the returned value is within the jitter of it.
C18_Witness ==
    /\ scored # NoResult
    /\ values.latency_ms = 150 /\ values.packet_loss = 20
    /\ values.temperature = 35 /\ values.humidity = 90 /\ values.wind_speed = 20
    /\ PreJitterProbability(values) = 5100
    /\ scored.downtime_probability = 15000

(***************************************************************************)
(* Claims about the order and the scale of the CityPredictions rows        *)
(***************************************************************************)
\* the index of the row of city c
RowOf(rows, c) == CHOOSE j \in DOMAIN rows : rows[j].city = c

\* C19: the rows are a permutation of the input entries (every city exactly
\* once, with its own probability), and cities of equal probability keep the
\* relative order they have in the input map.
C19_StableSortPermutation ==
    view # NoView /\ view.kind = "list" =>
        LET es == props.cityPredictions.entries
            rows == view.rows
        IN  /\ Len(rows) = Len(es)
            /\ \A i \in DOMAIN es :
                 Cardinality({ j \in DOMAIN rows :
                                 /\ rows[j].city = es[i][1]
                                 /\ rows[j].probability = es[i][2] }) = 1
            /\ \A i, k \in DOMAIN es :
                 (i < k /\ es[i][2] = es[k][2]) =>
                     RowOf(rows, es[i][1]) < RowOf(rows, es[k][1])

\* C19 witness: two cities tie, a third one entered after them is larger:
\* the third comes first and the two tied ones follow in their input order.
C19_Witness ==
    /\ view # NoView /\ view.kind = "list"
    /\ Len(props.cityPredictions.entries) = 3
    /\ props.cityPredictions.entries[1][2] = props.cityPredictions.entries[2][2]
    /\ props.cityPredictions.entries[3][2] > props.cityPredictions.entries[1][2]
    /\ view.rows[1].city = props.cityPredictions.entries[3][1]
    /\ view.rows[2].city = props.cityPredictions.entries[1][1]
    /\ view.rows[3].city = props.cityPredictions.entries[2][1]

\* the demo tables on the 0-1 scale
LargeScaleTables ==
    {mock_kenya, mock_brazil, mock_india, mock_indonesia, mock_nigeria}

\* C20 (as claimed): every city of a demo table on the 0-1 scale is
\* classified as Lower.
C20_LargeScaleAllLower ==
    (view # NoView /\ view.kind = "list"
        /\ props.cityPredictions \in LargeScaleTables) =>
        \A i \in DOMAIN view.rows : view.rows[i].riskLevel = "Lower Risk"

\* C20 (amended): every city of a demo table on the 0-1 scale is classified
\* as Higher, with the red bar: each of its values exceeds 0.006.
C20_LargeScaleAllHigher ==
    (view # NoView /\ view.kind = "list"
        /\ props.cityPredictions \in LargeScaleTables) =>
        /\ Len(view.rows) = 5
        /\ \A i \in DOMAIN view.rows :
             /\ view.rows[i].probability >= 220 * 1000 * 1000
             /\ view.rows[i].probability <= 820 * 1000 * 1000
             /\ view.rows[i].riskLevel = "Higher Risk"
             /\ view.rows[i].barColor = "bg-red-500"

\* C20 witness: the kenya table is rendered, Mombasa (0.67) first, and its
\* last row, Eldoret (0.29), is Higher Risk.
C20_Witness ==
    /\ view # NoView /\ view.kind = "list"
    /\ props.cityPredictions = mock_kenya
    /\ view.rows[1].city = "Mombasa"
    /\ view.rows[5].city = "Eldoret"
    /\ view.rows[5].riskLevel = "Higher Risk"

(***************************************************************************)
(* Claims about retries, concurrency and notifications of the hook         *)
(***************************************************************************)
\* C15: an invocation issues at most one external call: the number of calls
\* it has issued never grows after its start, and when its call fails it
\* ends in that very step, straight from the await of the call (no further
\* call, no delay), with that one call counted.
C15_AtMostOneCallInv ==
    /\ \A i \in 1 .. Len(inflight) : inflight[i].calls <= 1
    /\ finished.calls <= 1

C15_NoCallAfterStart ==
    /\ (Len(inflight') = Len(inflight)) =>
          \A i \in 1 .. Len(inflight) : inflight'[i].calls = inflight[i].calls
    /\ (Completes /\ finished'.ext = "failed") =>
          \E i \in 1 .. Len(inflight) :
              /\ inflight' = Leave(i)
              /\ inflight[i].pc \in AwaitingExternal
              /\ inflight[i].calls = 1
              /\ finished'.calls = 1

C15_SingleExternalCallNoRetry ==
    []C15_AtMostOneCallInv /\ [][C15_NoCallAfterStart]_vars

\* C15 witness: a real user's city request for Spain whose single call
\* failed has ended with the literal table stored.
C15_Witness ==
    /\ finished.pc = "done"
    /\ finished.op = "getCityPredictionsByCountry"
    /\ finished.arg = "Spain"
    /\ finished.ext = "failed"
    /\ finished.calls = 1
    /\ cityPredictions = fallback_Spain

\* C16 (as claimed): concurrent invocations share nothing, so each one's
\* loading flag is as in a run of its own: it is set for as long as the
\* invocation is outstanding.
C16_LoadingCoversEveryOutstandingInvocation ==
    \A i \in 1 .. Len(inflight) :
        /\ inflight[i].op \in {"getPrediction", "getSimplifiedPrediction"}
             => isLoading
        /\ inflight[i].op = "getCityPredictionsByCountry"
             => cityPredictionsLoading

\* the notification an operation raises when it succeeds
SuccessToast(op) ==
    IF op = "getCityPredictionsByCountry" THEN "loaded" ELSE "completed"

\* C17 (as claimed): an invocation whose external call failed raises the same
\* kind of notification as one whose call succeeded (never the error one).
C17_FallbackNotifiesLikeSuccess ==
    [][ (Completes /\ finished'.ext \in {"success", "failed"}) =>
            finished'.toast = SuccessToast(finished'.op) ]_vars


(***************************************************************************)
(* Every awaited promise settles: the fair runs of the hook                *)
(***************************************************************************)
\* the next step of the invocation in slot i: its pending await settles
\* (setTimeout fires, the rpc, fetch or body read resolves or rejects)
InvocationStep(i) ==
    \/ getPrediction_RpcSettled(i, PageRandoms)
    \/ getPrediction_DelayElapsed(i, PageRandoms)
    \/ getSimplifiedPrediction_DelayElapsed(i, PageRandoms)
    \/ getSimplifiedPrediction_FetchSettled(i, PageRandoms)
    \/ getSimplifiedPrediction_JsonSettled(i, PageRandoms)
    \/ getCityPredictionsByCountry_DelayElapsed(i)
    \/ getCityPredictions_FetchSettled(i)
    \/ getCityPredictions_TextSettled(i)
    \/ getCityPredictions_JsonSettled(i)
    \/ getCityPredictions_DeadlineExpired(i)

\* The three operations side by side, explored with one country and without
\* the page's effect on the stored result
FairCountries == {"Spain"}

FairNext ==
    \/ AuthNext
    \/ getPrediction_Start(PageRequests)
    \/ getSimplifiedPrediction_Start(PageSimplifiedRequests)
    \/ getCityPredictionsByCountry_Start(FairCountries)
    \/ \E i \in Slots : InvocationStep(i)

\* The runs in which no await stays pending for ever: the invocation that
\* has waited longest (the first of inflight) always gets its next step, so
\* every invocation gets its own once those before it have ended.
SpecFair ==
    /\ HookInit
    /\ [][FairNext]_vars
    /\ WF_vars(InvocationStep(1))

\* a step in which an invocation starts (it is the last of inflight')
Starts == Len(inflight') > Len(inflight)
StartedOp == inflight'[Len(inflight')].op
PredictionOps == {"getPrediction", "getSimplifiedPrediction"}

\* C21, at the start: the operation's own flag is raised, and a city request
\* clears the previous map to null
C21_StartRaisesFlag ==
    Starts =>
        IF StartedOp \in PredictionOps
        THEN isLoading'
        ELSE cityPredictionsLoading' /\ cityPredictions' = Null

\* C21, at the end: the ending invocation lowers its flag and has stored a
\* result: a PredictionResult, or the city map of a response that has one
C21_EndLowersFlagWithResult ==
    Completes =>
        IF finished'.op \in PredictionOps
        THEN ~isLoading' /\ result' # Null /\ result' # Undefined
        ELSE /\ ~cityPredictionsLoading'
             /\ cityPredictions' # Null
             /\ finished'.ext # "malformed" =>
                    /\ cityPredictions' # Undefined
                    /\ "entries" \in DOMAIN cityPredictions'

ShownAfter(country) ==
    CityPredictions([ cityPredictions        |-> cityPredictions',
                      cityPredictionsLoading |-> cityPredictionsLoading',
                      country                |-> country ])

\* C22 (as claimed): when getCityPredictionsByCountry ends, whatever the mode
\* and the external outcome, the stored cityPredictions is a map (possibly
\* empty), never null or absent, so the page shows the list or the "no data"
\* notice and never the "select a country" placeholder.
C22_CompletedCityRequestStoresAMap ==
    [][ (Completes /\ finished'.op = "getCityPredictionsByCountry") =>
            /\ cityPredictions' \notin {Null, Undefined}
            /\ ShownAfter(finished'.arg).kind \in {"nodata", "list"} ]_vars


\* the invocations the hook has started: those in flight and the last ended
Invocations ==
    { inflight[i] : i \in 1 .. Len(inflight) }
        \cup (IF finished.pc = "done" THEN {finished} ELSE {})

\* C23: without backend configuration the condition selecting the external
\* path is false in every auth state for all three operations, so no
\* invocation ever issues an external call; mockMode is true only without
\* backend configuration, and then the exposed user is the demo user.
C23_NoBackendNoExternalCall ==
    /\ ~configured =>
          /\ ~DirectUsesApi
          /\ UsesMock
          /\ \A inv \in Invocations :
                /\ inv.calls = 0
                /\ inv.ext = "none"
                /\ inv.pc \notin AwaitingExternal
    /\ mockMode => (~configured /\ ctxUser = "mock")

\* no backend, the demo user has signed out, and a prediction requested
\* after the session check has ended without an external call
C23_Witness ==
    /\ ~configured
    /\ sessionCheck = "done"
    /\ ~mockMode
    /\ user = "null"
    /\ finished.pc = "done"
    /\ finished.op = "getPrediction"
    /\ finished.calls = 0
    /\ Len(inflight) = 1
    /\ inflight[1].op = "getCityPredictionsByCountry"
    /\ inflight[1].pc = "awaitDelay"


\* the operations of the invocations in flight after the step
OutstandingOps == { inflight'[i].op : i \in 1 .. Len(inflight') }

\* C24 (as claimed): a loading flag shared by overlapping invocations falls
\* only in a step that leaves none of them in flight.
C24_FlagFallsOnlyWithLastInvocation ==
    [][ /\ (isLoading /\ ~isLoading') => OutstandingOps \cap PredictionOps = {}
        /\ (cityPredictionsLoading /\ ~cityPredictionsLoading') =>
               "getCityPredictionsByCountry" \notin OutstandingOps ]_vars


\* invocation i ends in this step
Ends(i) ==
    /\ Completes
    /\ i <= Len(inflight)
    /\ inflight' = Leave(i)
    /\ finished'.op = inflight[i].op
    /\ finished'.arg = inflight[i].arg

\* invocation i is the last one in flight that writes its state
LastWriter(i) ==
    \A j \in 1 .. Len(inflight) :
        j # i => StateOf(inflight[j].op) # StateOf(inflight[i].op)

\* C25 (as claimed): of two overlapping requests of one kind the one started
\* last determines the stored data: when the earlier request ends after the
\* later one (and no other is in flight) it leaves the stored data alone.
C25_EarlierRequestNeverOverwrites ==
    [][ \A i \in Slots :
          (Ends(i) /\ inflight[i].overtaken /\ LastWriter(i)) =>
              IF StateOf(inflight[i].op) = "result"
              THEN result' = result
              ELSE cityPredictions' = cityPredictions ]_vars


(***************************************************************************)
(* getSimplifiedPrediction's mock calculation over the whole simplified    *)
(* form                                                                    *)
(***************************************************************************)
SimplifiedInit ==
    /\ values \in SimplifiedRequests
    /\ scored = NoResult
    /\ IdleClassifier
    /\ IdleAuth
    /\ IdleHook
    /\ IdleAlerts

\* lines 232-247: the mock branch's calculation
ScoreSimplified ==
    /\ scored = NoResult
    /\ \E r \in Randoms : scored' = calculateMockProbability(fullRequest(values), r)
    /\ UNCHANGED <<values, classifierVars, authVars, hookVars, alertVars>>

\* lines 266-276: the catch block's calculation
ScoreSimplifiedFallback ==
    /\ scored = NoResult
    /\ \E r \in Randoms : scored' = getSimplifiedPrediction_Catch(values, r)
    /\ UNCHANGED <<values, classifierVars, authVars, hookVars, alertVars>>

SimplifiedNext == ScoreSimplified \/ ScoreSimplifiedFallback \/ Resubmit

SpecSimplified == SimplifiedInit /\ [][SimplifiedNext]_vars

\* C26: for every network quality, weather condition and jitter value the
\* mock calculation of getSimplifiedPrediction, and the one of its error
\* path, stay below the 0.7 threshold and never set alert_triggered.
C26_SimplifiedMockNeverAlerts ==
    scored # NoResult =>
        /\ scored.alert_triggered = FALSE
        /\ scored.threshold = (7 * Scale) \div 10
        /\ scored.downtime_probability < scored.threshold

\* the worst simplified input (poor network in a storm) with the largest
\* jitter was scored: 0.09 + 0.024 + 0.15 + 0.0995 gives 0.36
C26_Witness ==
    /\ values.network_quality = "poor"
    /\ values.weather_condition = "stormy"
    /\ scored # NoResult
    /\ scored.downtime_probability = (36 * Scale) \div 100
    /\ scored.alert_triggered = FALSE


\* the (city, probability) pairs of a city map
EntrySet(m) == { m.entries[k] : k \in 1 .. Len(m.entries) }

\* C27 (as claimed): the map a demo-mode request stores is, for every
\* country name, the one the service's fallback gives for that name after a
\* failed call: the same cities with the same probabilities, and empty for
\* the same names.
C27_DemoMapEqualsFailureFallback ==
    [][ (Completes /\ finished'.op = "getCityPredictionsByCountry"
            /\ MockClosure(finished')) =>
          EntrySet(cityPredictions') =
              EntrySet(getCityPredictions_Catch(finished'.arg).value.predictions)
      ]_vars


(***************************************************************************)
(* alertService: the mock store and the service functions                  *)
(*                                                                         *)
(* An alert keeps the fields the service and the page branch on; title,    *)
(* description, sourceDevice and threshold are copied through unread.      *)
(* Times are in milliseconds since the module was loaded; an absent        *)
(* resolvedAt or notes is Undefined.                                       *)
(***************************************************************************)
MaxCreated == 1
MaxClock == 2

\* lines 5-73, in array order
InitialAlerts ==
    << [ id |-> "1", severity |-> "high", status |-> "pending",
         createdAt |-> 0, resolvedAt |-> Undefined, notes |-> Undefined,
         country |-> "Spain", city |-> "Madrid", isSystem |-> TRUE ],
       [ id |-> "2", severity |-> "critical", status |-> "acknowledged",
         createdAt |-> 0 - 86400000, resolvedAt |-> Undefined,
         notes |-> Undefined,
         country |-> "UnitedStates", city |-> "New York", isSystem |-> TRUE ],
       [ id |-> "3", severity |-> "critical", status |-> "resolved",
         createdAt |-> 0 - 172800000, resolvedAt |-> [time |-> 0 - 86400000],
         notes |-> [text |-> "False alarm, traffic spike due to marketing campaign"],
         country |-> "UnitedKingdom", city |-> "London", isSystem |-> TRUE ],
       [ id |-> "4", severity |-> "medium", status |-> "pending",
         createdAt |-> 0 - 43200000, resolvedAt |-> Undefined,
         notes |-> Undefined,
         country |-> "Spain", city |-> "Barcelona", isSystem |-> TRUE ],
       [ id |-> "5", severity |-> "low", status |-> "pending",
         createdAt |-> 0 - 129600000, resolvedAt |-> Undefined,
         notes |-> Undefined,
         country |-> "UnitedStates", city |-> "Los Angeles",
         isSystem |-> FALSE ] >>

\* lines 75-84
MOCK_STATS ==
    [ total |-> 5, pending |-> 3, acknowledged |-> 1, resolved |-> 1,
      critical |-> 2, high |-> 1, medium |-> 1, low |-> 1 ]

\* the supabase argument: null, AuthContext's mock client (no backend
\* configured), or the real client
Clients == {"null", "mockClient", "client"}

\* How a query of the client ends: the real client answers with rows or with
\* an error; a query chain on the mock client throws a TypeError (its
\* from() has no order(), range() or select() after update()/insert()).
Backend(supabase) ==
    IF supabase = "client" THEN {"rows", "error"} ELSE {"error"}

\* options?.key is set (the option sets below hold no empty string)
Given(options, key) == key \in DOMAIN options

\* lines 109-127: the five filters
Matches(alert, options) ==
    /\ Given(options, "status") => alert.status = options.status
    /\ Given(options, "severity") => alert.severity = options.severity
    /\ Given(options, "country") => alert.country = options.country
    /\ Given(options, "city") => alert.city = options.city
    /\ Given(options, "isSystem") => alert.isSystem = options.isSystem

\* alert a put behind every alert of s that is as new or newer (the
\* comparator of line 130 in a stable sort)
InsertByDate(s, a) ==
    LET k == Cardinality({ j \in 1 .. Len(s) : s[j].createdAt >= a.createdAt })
    IN  SubSeq(s, 1, k) \o <<a>> \o SubSeq(s, k + 1, Len(s))

\* line 130: filteredAlerts.sort(newest first)
RECURSIVE NewestFirst(_)
NewestFirst(s) ==
    IF s = << >> THEN << >>
    ELSE InsertByDate(NewestFirst(SubSeq(s, 1, Len(s) - 1)), s[Len(s)])

\* Array.prototype.slice(start, end) for 0 <= start <= end
Slice(s, start, end) == SubSeq(s, start + 1, Min(end, Len(s)))

\* lines 134-140: options?.limit && options?.offset !== undefined
Paginate(sorted, options) ==
    IF Given(options, "limit") /\ options.limit # 0 /\ Given(options, "offset")
    THEN Slice(sorted, options.offset, options.offset + options.limit)
    ELSE sorted

\* lines 103-146: the mock branch of fetchAlerts over the store
fetchAlerts_Mock(store, options) ==
    LET filteredAlerts == NewestFirst(SelectSeq(store, LAMBDA a : Matches(a, options)))
    IN  [ alerts |-> Paginate(filteredAlerts, options),
          total  |-> Len(filteredAlerts) ]

\* rows the backend answers a query with (already in the page's format)
DbRows ==
    << [ id |-> "db-1", severity |-> "low", status |-> "pending",
         createdAt |-> 0 - 1000, resolvedAt |-> Undefined, notes |-> Undefined,
         country |-> "Spain", city |-> "Madrid", isSystem |-> TRUE ] >>

\* lines 89-218.  db is how the query ends if one is issued; a failed query
\* ends in the catch of line 209, which calls fetchAlerts(null, options).
RECURSIVE fetchAlerts(_, _, _, _)
fetchAlerts(supabase, options, db, store) ==
    IF supabase = "null"
    THEN LET r == fetchAlerts_Mock(store, options)
         IN  [ settled |-> "resolved", source |-> "mock", fallbacks |-> 0,
               alerts |-> r.alerts, total |-> r.total ]
    ELSE IF db = "rows"
    THEN [ settled |-> "resolved", source |-> "db", fallbacks |-> 0,
           alerts |-> DbRows, total |-> Len(DbRows) ]
    ELSE [ fetchAlerts("null", options, db, store)
             EXCEPT !.fallbacks = @ + 1 ]

\* lines 235: MOCK_ALERTS.findIndex(alert => alert.id === alertId), from 1,
\* 0 when there is none
FindIndex(store, alertId) ==
    IF \E k \in 1 .. Len(store) : store[k].id = alertId
    THEN CHOOSE k \in 1 .. Len(store) :
            /\ store[k].id = alertId
            /\ \A j \in 1 .. (k - 1) : store[j].id # alertId
    ELSE 0

\* lines 241-246: the replacement object (notes is the argument, "" when
\* empty or not given)
Updated(alert, status, notes, now) ==
    [ alert EXCEPT !.status = status,
                   !.notes = IF notes # "" THEN [text |-> notes] ELSE @,
                   !.resolvedAt = IF status = "resolved"
                                  THEN [time |-> now] ELSE @ ]

\* lines 231-249: the mock branch of updateAlertStatus
updateAlertStatus_Mock(store, alertId, status, notes, now) ==
    LET alertIndex == FindIndex(store, alertId)
    IN  IF alertIndex = 0
        THEN [ settled |-> "rejected", source |-> "mock", store |-> store ]
        ELSE [ settled |-> "resolved", source |-> "mock",
               store |-> [store EXCEPT
                            ![alertIndex] = Updated(@, status, notes, now)] ]

\* lines 223-296: a failed update falls back to the mock branch (line 290),
\* whose error, if any, is thrown on (line 294)
updateAlertStatus(supabase, alertId, status, notes, db, store, now) ==
    IF supabase # "null" /\ db = "rows"
    THEN [ settled |-> "resolved", source |-> "db", store |-> store ]
    ELSE updateAlertStatus_Mock(store, alertId, status, notes, now)

\* lines 301-390 (the mock branch returns the constant)
getAlertStats(supabase, db) ==
    IF supabase # "null" /\ db = "rows"
    THEN [ settled |-> "resolved", source |-> "db",
           stats |-> [ total |-> Len(DbRows), pending |-> Len(DbRows),
                       acknowledged |-> 0, resolved |-> 0, critical |-> 0,
                       high |-> 0, medium |-> 0, low |-> Len(DbRows) ] ]
    ELSE [ settled |-> "resolved", source |-> "mock", stats |-> MOCK_STATS ]

\* lines 413-425: the alert createAlert builds at Date.now() = now
NewAlert(input, now) ==
    [ id |-> "mock-" \o ToString(now), severity |-> input.severity,
      status |-> "pending", createdAt |-> now, resolvedAt |-> Undefined,
      notes |-> Undefined, country |-> input.country, city |-> input.city,
      isSystem |-> FALSE ]

\* lines 395-476: a failed insert falls back to the mock branch (line 470)
createAlert(supabase, input, db, store, now) ==
    IF supabase # "null" /\ db = "rows"
    THEN [ settled |-> "resolved", source |-> "db", store |-> store ]
    ELSE [ settled |-> "resolved", source |-> "mock",
           store |-> Append(store, NewAlert(input, now)) ]


------------------------------------------------------------------------------
\* The service called directly, with any client and any arguments

Statuses == {"pending", "acknowledged", "resolved"}
NoteInputs == {"", "checked"}
CreateInputs ==
    [ severity : {"critical"}, country : {"Spain"}, city : {"Madrid"} ]

\* the options fetchAlerts is called with: none, single filters, the page's
\* combination, and pages given by limit and offset or by limit alone
FetchOptions ==
    { Undefined,
      [status |-> "pending"],
      [severity |-> "critical"],
      [country |-> "Spain", city |-> "Madrid"],
      [isSystem |-> FALSE],
      [isSystem |-> TRUE, limit |-> 5, offset |-> 0],
      [limit |-> 2, offset |-> 0],
      [limit |-> 2, offset |-> 2],
      [limit |-> 5, offset |-> 5],
      [limit |-> 2] }

\* ids a caller may pass: of stored alerts (the first and those created) and
\* of none
CallerIds ==
    {"1", "unknown"}
        \cup { MOCK_ALERTS[k].id : k \in (Len(InitialAlerts) + 1) .. Len(MOCK_ALERTS) }

AlertServiceInit ==
    /\ MOCK_ALERTS = InitialAlerts
    /\ clock = 0
    /\ lastCall = NoCall
    /\ page = NoPage
    /\ viewCalls = << >>
    /\ IdleScorer
    /\ IdleClassifier
    /\ IdleAuth
    /\ IdleHook

\* createAlert(supabase, input); Date.now() is the same as or later than at
\* the call before
createAlert_Call ==
    /\ Len(MOCK_ALERTS) < Len(InitialAlerts) + MaxCreated
    /\ \E supabase \in Clients, input \in CreateInputs, elapsed \in {0, 1} :
         \E db \in Backend(supabase) :
           /\ clock + elapsed <= MaxClock
           /\ LET r == createAlert(supabase, input, db, MOCK_ALERTS, clock + elapsed)
              IN  /\ clock' = clock + elapsed
                  /\ MOCK_ALERTS' = r.store
                  /\ lastCall' = [ op |-> "createAlert", supabase |-> supabase,
                                   settled |-> r.settled, source |-> r.source ]
    /\ UNCHANGED <<page, viewCalls, scorerVars, classifierVars, authVars, hookVars>>

\* updateAlertStatus(supabase, alertId, status), the notes not given
updateAlertStatus_Call ==
    /\ \E supabase \in Clients, alertId \in CallerIds, status \in Statuses,
          notes \in {""} :
         \E db \in Backend(supabase) :
           LET r == updateAlertStatus(supabase, alertId, status, notes, db,
                                      MOCK_ALERTS, clock)
           IN  /\ MOCK_ALERTS' = r.store
               /\ lastCall' = [ op |-> "updateAlertStatus", supabase |-> supabase,
                                settled |-> r.settled, source |-> r.source ]
    /\ UNCHANGED <<clock, page, viewCalls, scorerVars, classifierVars, authVars,
                   hookVars>>

\* fetchAlerts(supabase, options)
fetchAlerts_Call ==
    /\ \E supabase \in Clients, options \in FetchOptions :
         \E db \in Backend(supabase) :
           LET r == fetchAlerts(supabase, options, db, MOCK_ALERTS)
           IN  lastCall' = [ op |-> "fetchAlerts", supabase |-> supabase,
                             options |-> options, settled |-> r.settled,
                             source |-> r.source, fallbacks |-> r.fallbacks,
                             alerts |-> r.alerts, total |-> r.total ]
    /\ UNCHANGED <<MOCK_ALERTS, clock, page, viewCalls, scorerVars,
                   classifierVars, authVars, hookVars>>

\* getAlertStats(supabase, options)
getAlertStats_Call ==
    /\ \E supabase \in Clients :
         \E db \in Backend(supabase) :
           LET r == getAlertStats(supabase, db)
           IN  lastCall' = [ op |-> "getAlertStats", supabase |-> supabase,
                             settled |-> r.settled, source |-> r.source,
                             stats |-> r.stats ]
    /\ UNCHANGED <<MOCK_ALERTS, clock, page, viewCalls, scorerVars,
                   classifierVars, authVars, hookVars>>

AlertServiceNext ==
    \/ createAlert_Call
    \/ updateAlertStatus_Call
    \/ fetchAlerts_Call
    \/ getAlertStats_Call

SpecAlertService == AlertServiceInit /\ [][AlertServiceNext]_vars


\* the number of stored alerts with the given status
StoredWith(status) ==
    Cardinality({ k \in 1 .. Len(MOCK_ALERTS) : MOCK_ALERTS[k].status = status })

\* C28 (as claimed): after any calls of createAlert and updateAlertStatus the
\* statistics of the mock path agree with the store: total is the total of an
\* unfiltered fetchAlerts (the number of stored alerts), the three status
\* counts add up to it, and each is the number of stored alerts with that
\* status.
C28_StatsAgreeWithStore ==
    (lastCall.op = "getAlertStats" /\ lastCall.source = "mock") =>
        /\ lastCall.stats.total =
              fetchAlerts("null", Undefined, "error", MOCK_ALERTS).total
        /\ lastCall.stats.total = Len(MOCK_ALERTS)
        /\ lastCall.stats.pending + lastCall.stats.acknowledged
              + lastCall.stats.resolved = lastCall.stats.total
        /\ lastCall.stats.pending = StoredWith("pending")
        /\ lastCall.stats.acknowledged = StoredWith("acknowledged")
        /\ lastCall.stats.resolved = StoredWith("resolved")

\* the stored alerts matching the options, newest first
MatchingNewestFirst(options) ==
    NewestFirst(SelectSeq(MOCK_ALERTS, LAMBDA a : Matches(a, options)))

\* C30 (as claimed): fetchAlerts always settles with a result, after at most
\* one fallback to the mock store (exactly one when a backend query failed);
\* on the mock branch total is the number of alerts matching the filters and
\* the page is newest first, has at most limit alerts and is the slice
\* [offset, offset + limit) of the filtered, sorted list.
C30_FetchAlertsSettlesWithThePage ==
    lastCall.op = "fetchAlerts" =>
        /\ lastCall.settled = "resolved"
        /\ lastCall.fallbacks <= 1
        /\ lastCall.source = "mock" =>
             LET options == lastCall.options
                 offset  == IF Given(options, "offset") THEN options.offset ELSE 0
                 sorted  == MatchingNewestFirst(options)
             IN  /\ lastCall.fallbacks = IF lastCall.supabase = "null" THEN 0 ELSE 1
                 /\ lastCall.total =
                       Cardinality({ k \in 1 .. Len(MOCK_ALERTS) :
                                        Matches(MOCK_ALERTS[k], options) })
                 /\ \A i, j \in 1 .. Len(lastCall.alerts) :
                       i < j => lastCall.alerts[i].createdAt
                                   >= lastCall.alerts[j].createdAt
                 /\ IF Given(options, "limit")
                    THEN /\ Len(lastCall.alerts) <= options.limit
                         /\ lastCall.alerts =
                               Slice(sorted, offset, offset + options.limit)
                    ELSE lastCall.alerts = sorted


(***************************************************************************)
(* ViewAlerts and CreateAlertForm over the alert service                   *)
(*                                                                         *)
(* The page shows one list (currentTab "all", no severity, country or city *)
(* filter, first page) and switches between the network alerts and the     *)
(* user's own.  A handler runs from one await to the next in one step;     *)
(* viewCalls lists the service calls the handlers are waiting for.  With   *)
(* the mock client every await settles in a microtask, before the user can *)
(* act again; with the real client a query takes its time.                 *)
(***************************************************************************)
PAGE_SIZE == 5
MaxViewCalls == 2

\* useAuth().supabase: never null
supabase == IF configured THEN "client" ELSE "mockClient"

\* lines 23-46: useState initial values
MountedPage ==
    [ mounted |-> TRUE, alerts |-> << >>,
      stats |-> [ total |-> 0, pending |-> 0, acknowledged |-> 0,
                  resolved |-> 0, critical |-> 0, high |-> 0, medium |-> 0,
                  low |-> 0 ],
      totalAlerts |-> 0, loading |-> TRUE, alertType |-> "system",
      selectedAlert |-> Null, notes |-> "", isDialogOpen |-> FALSE ]

\* lines 87-98: the options loadData passes for the page's filters
LoadOptions(alertType) ==
    IF alertType = "all"
    THEN [ limit |-> PAGE_SIZE, offset |-> 0 ]
    ELSE [ isSystem |-> (alertType = "system"), limit |-> PAGE_SIZE,
           offset |-> 0 ]

\* lines 84-98: loadData up to its first await
LoadCall(alertType) ==
    [ op |-> "loadData", pc |-> "awaitFetch", options |-> LoadOptions(alertType),
      fetched |-> Null ]

\* the cards whose button the user clicks
ClickedIds == {"1"}

\* the user can act: the page is there and no microtask is pending
UserCanAct == page.mounted /\ (configured \/ viewCalls = << >>)

\* call i of the page is at pc
Waiting(i, op, pc) ==
    /\ i <= Len(viewCalls)
    /\ viewCalls[i].op = op
    /\ viewCalls[i].pc = pc

ViewInit ==
    /\ MOCK_ALERTS = InitialAlerts
    /\ clock = 0
    /\ lastCall = NoCall
    /\ page = NoPage
    /\ viewCalls = << >>
    /\ configured \in BOOLEAN
    /\ user = "null" /\ mockMode = FALSE /\ sessionCheck = "pending"
    /\ IdleScorer
    /\ IdleClassifier
    /\ IdleHook

\* the page is mounted: both effects (lines 122-129) call loadData
Mount ==
    /\ ~page.mounted
    /\ page' = MountedPage
    /\ viewCalls' = << LoadCall("system"), LoadCall("system") >>
    /\ UNCHANGED <<MOCK_ALERTS, clock, lastCall, scorerVars, classifierVars,
                   authVars, hookVars>>

\* lines 90-98: fetchAlerts settles
loadData_FetchSettled(i) ==
    /\ Waiting(i, "loadData", "awaitFetch")
    /\ \E db \in Backend(supabase) :
         LET r == fetchAlerts(supabase, viewCalls[i].options, db, MOCK_ALERTS)
         IN  viewCalls' = [viewCalls EXCEPT
                             ![i].pc = "awaitStats",
                             ![i].fetched = [alerts |-> r.alerts, total |-> r.total]]
    /\ UNCHANGED <<MOCK_ALERTS, clock, lastCall, page, scorerVars,
                   classifierVars, authVars, hookVars>>

\* lines 100-119: getAlertStats settles
loadData_StatsSettled(i) ==
    /\ Waiting(i, "loadData", "awaitStats")
    /\ \E db \in Backend(supabase) :
         page' = [page EXCEPT !.alerts = viewCalls[i].fetched.alerts,
                              !.stats = getAlertStats(supabase, db).stats,
                              !.totalAlerts = viewCalls[i].fetched.total,
                              !.loading = FALSE]
    /\ viewCalls' = Remove(viewCalls, i)
    /\ UNCHANGED <<MOCK_ALERTS, clock, lastCall, scorerVars, classifierVars,
                   authVars, hookVars>>

\* lines 246-260 with the effect of lines 122-125: another alert type is
\* chosen
setAlertType ==
    /\ UserCanAct
    /\ ~page.isDialogOpen
    /\ Len(viewCalls) < MaxViewCalls
    /\ \E alertType \in {"system", "personal"} \ {page.alertType} :
         /\ page' = [page EXCEPT !.alertType = alertType, !.loading = TRUE]
         /\ viewCalls' = Append(viewCalls, LoadCall(alertType))
    /\ UNCHANGED <<MOCK_ALERTS, clock, lastCall, scorerVars, classifierVars,
                   authVars, hookVars>>

\* lines 152-156 behind the card's button (lines 402-409), which a resolved
\* alert does not have
openStatusDialog ==
    /\ UserCanAct
    /\ ~page.loading
    /\ ~page.isDialogOpen
    /\ \E k \in 1 .. Len(page.alerts) :
         /\ page.alerts[k].id \in ClickedIds
         /\ page.alerts[k].status # "resolved"
         /\ page' = [page EXCEPT !.selectedAlert = page.alerts[k],
                                 !.notes = "", !.isDialogOpen = TRUE]
    /\ UNCHANGED <<MOCK_ALERTS, clock, lastCall, viewCalls, scorerVars,
                   classifierVars, authVars, hookVars>>

\* line 462: the notes are typed
setNotes ==
    /\ UserCanAct
    /\ page.isDialogOpen
    /\ \E notes \in NoteInputs \ {page.notes} : page' = [page EXCEPT !.notes = notes]
    /\ UNCHANGED <<MOCK_ALERTS, clock, lastCall, viewCalls, scorerVars,
                   classifierVars, authVars, hookVars>>

\* line 469 (and onOpenChange): the dialog is dismissed
closeDialog ==
    /\ UserCanAct
    /\ page.isDialogOpen
    /\ page' = [page EXCEPT !.isDialogOpen = FALSE]
    /\ UNCHANGED <<MOCK_ALERTS, clock, lastCall, viewCalls, scorerVars,
                   classifierVars, authVars, hookVars>>

\* lines 472-480 and 131-135: the dialog's action button is clicked
handleUpdateStatus_Click ==
    /\ UserCanAct
    /\ page.isDialogOpen
    /\ page.selectedAlert # Null
    /\ Len(viewCalls) < MaxViewCalls
    /\ viewCalls' =
          Append(viewCalls,
                 [ op |-> "handleUpdateStatus", pc |-> "awaitUpdate",
                   alertId |-> page.selectedAlert.id,
                   status |-> IF page.selectedAlert.status = "pending"
                              THEN "acknowledged" ELSE "resolved",
                   notes |-> page.notes ])
    /\ UNCHANGED <<MOCK_ALERTS, clock, lastCall, page, scorerVars,
                   classifierVars, authVars, hookVars>>

\* lines 135-149: updateAlertStatus settles
handleUpdateStatus_Settled(i) ==
    /\ Waiting(i, "handleUpdateStatus", "awaitUpdate")
    /\ \E db \in Backend(supabase) :
         LET r == updateAlertStatus(supabase, viewCalls[i].alertId,
                                    viewCalls[i].status, viewCalls[i].notes,
                                    db, MOCK_ALERTS, clock)
         IN  /\ MOCK_ALERTS' = r.store
             /\ IF r.settled = "resolved"
                THEN /\ page' = [page EXCEPT !.isDialogOpen = FALSE,
                                             !.loading = TRUE]
                     /\ viewCalls' = Append(Remove(viewCalls, i),
                                            LoadCall(page.alertType))
                ELSE /\ page' = page
                     /\ viewCalls' = Remove(viewCalls, i)
    /\ UNCHANGED <<clock, lastCall, scorerVars, classifierVars, authVars, hookVars>>

\* the createAlert calls in flight
CreatesInFlight ==
    Cardinality({ i \in 1 .. Len(viewCalls) : viewCalls[i].op = "onSubmit" })

\* CreateAlertForm.onSubmit lines 145-156: the form is submitted
onSubmit_Click ==
    /\ UserCanAct
    /\ ~page.isDialogOpen
    /\ Len(viewCalls) < MaxViewCalls
    /\ Len(MOCK_ALERTS) + CreatesInFlight < Len(InitialAlerts) + MaxCreated
    /\ clock + CreatesInFlight < MaxClock
    /\ \E input \in CreateInputs :
         viewCalls' = Append(viewCalls,
                             [op |-> "onSubmit", pc |-> "awaitInsert",
                              input |-> input])
    /\ UNCHANGED <<MOCK_ALERTS, clock, lastCall, page, scorerVars,
                   classifierVars, authVars, hookVars>>

\* CreateAlertForm.onSubmit lines 156-176: createAlert settles; the user's
\* submissions are at least a millisecond apart
onSubmit_Settled(i) ==
    /\ Waiting(i, "onSubmit", "awaitInsert")
    /\ \E db \in Backend(supabase) :
         MOCK_ALERTS' = createAlert(supabase, viewCalls[i].input, db,
                                    MOCK_ALERTS, clock + 1).store
    /\ clock' = clock + 1
    /\ viewCalls' = Remove(viewCalls, i)
    /\ UNCHANGED <<lastCall, page, scorerVars, classifierVars, authVars, hookVars>>

ViewNext ==
    \/ Mount
    \/ setAlertType
    \/ openStatusDialog
    \/ setNotes
    \/ closeDialog
    \/ handleUpdateStatus_Click
    \/ onSubmit_Click
    \/ \E i \in 1 .. MaxViewCalls :
          \/ loadData_FetchSettled(i)
          \/ loadData_StatsSettled(i)
          \/ handleUpdateStatus_Settled(i)
          \/ onSubmit_Settled(i)

SpecAlertsView == ViewInit /\ [][ViewNext]_vars


\* pending, acknowledged, resolved in the order of the life cycle
Rank(status) ==
    CASE status = "pending" -> 0
      [] status = "acknowledged" -> 1
      [] status = "resolved" -> 2

\* C29: whatever the user does on the alerts page and in the create form,
\* every step leaves each stored alert's status where it was or moves it one
\* stage forward (pending, acknowledged, resolved), so a resolved alert
\* never changes status again; an alert the step adds is pending with
\* isSystem false; and every resolved alert of the store has resolvedAt set.
C29_StatusOnlyMovesForward ==
    [][ /\ Len(MOCK_ALERTS') >= Len(MOCK_ALERTS)
        /\ \A k \in 1 .. Len(MOCK_ALERTS) :
              /\ MOCK_ALERTS'[k].id = MOCK_ALERTS[k].id
              /\ Rank(MOCK_ALERTS'[k].status) - Rank(MOCK_ALERTS[k].status)
                    \in {0, 1}
        /\ \A k \in (Len(MOCK_ALERTS) + 1) .. Len(MOCK_ALERTS') :
              /\ MOCK_ALERTS'[k].status = "pending"
              /\ MOCK_ALERTS'[k].isSystem = FALSE
        /\ \A k \in 1 .. Len(MOCK_ALERTS') :
              MOCK_ALERTS'[k].status = "resolved"
                 => MOCK_ALERTS'[k].resolvedAt # Undefined ]_vars

====
